---------------------------- MODULE Spec2Model ----------------------------
(***************************************************************************)
(* Model of the ticket classification engine of python_common/analysis.py  *)
(* (TicketAnalyzer.suggest_categories and the signal stages it calls) and  *)
(* of the priority table built by python_common/taxonomy.py.               *)
(*                                                                         *)
(* Conventions                                                             *)
(*  - a taxonomy path is a sequence of 1..3 label strings;                 *)
(*  - a ticket's combined text is a sequence of lowercase tokens joined by *)
(*    single spaces, so _raw_tokens(text) is that sequence and a substring *)
(*    test on the text is decided on the tokens (PhraseInText);            *)
(*  - a confidence is an integer number of hundredths (0.95 is 95); sums   *)
(*    that the code rounds with round(x, 2) are formed in millionths and   *)
(*    rounded by Round2;                                                   *)
(*  - a TF-IDF similarity is an integer number of thousandths; inverse     *)
(*    document frequencies are in hundredths (natural logarithms from the  *)
(*    table Ln100);                                                        *)
(*  - Python's None is the string NoneValue for optional labels and the    *)
(*    empty sequence for the optional priority_override.                   *)
(***************************************************************************)
EXTENDS Integers, Sequences, FiniteSets, TLC

(***************************************************************************)
(* Bounds of the model                                                     *)
(***************************************************************************)
MaxTokens == 2
MaxPriorityEntries == 9
MaxBatchTokens == 2
MaxCalls == 2
MaxTreeEntries == 4
MaxRepeats == 18
MaxRows == 2
MaxRuns == 2
MaxSubmissions == 2
MaxPages == 3
MaxGap == 6
MaxMetaEntries == 2

(***************************************************************************)
(* Generic helpers                                                         *)
(***************************************************************************)
Range(s) == {s[i] : i \in DOMAIN s}

Min(a, b) == IF a <= b THEN a ELSE b

Max(a, b) == IF a >= b THEN a ELSE b

Abs(a) == IF a >= 0 THEN a ELSE 0 - a

SeqsUpTo(S, n) == UNION {[1..k -> S] : k \in 0..n}

RECURSIVE SumOver(_, _)
SumOver(f, S) ==
    IF S = {} THEN 0
    ELSE LET x == CHOOSE y \in S : TRUE IN f[x] + SumOver(f, S \ {x})

RECURSIVE ISqrtFrom(_, _)
ISqrtFrom(n, r) ==
    LET next == (r + n \div r) \div 2
    IN IF next >= r THEN r ELSE ISqrtFrom(n, next)

\* math.sqrt, truncated to an integer (Newton iteration from above)
ISqrt(n) == IF n <= 0 THEN 0 ELSE ISqrtFrom(n, n)

\* round(x, 2) of a value given in millionths, as hundredths
Round2(micro) == (micro + 5000) \div 10000

NoneValue == "<None>"

OrEmpty(v) == IF v = NoneValue THEN "" ELSE v

(***************************************************************************)
(* Taxonomy: labels, paths, derived keywords                               *)
(***************************************************************************)
GeneralIT == <<"General IT">>
Questions == <<"General IT", "Questions">>
RemoteAccess == <<"Remote Access">>
AnywarePath == <<"Remote Access", "Anyware/RDP VM">>
CitrixPath == <<"Remote Access", "Citrix (Legacy)">>
VpnPath == <<"Remote Access", "VPN (CATO)">>
Software == <<"Software">>
Productivity == <<"Software", "Productivity">>
OutlookPath == <<"Software", "Productivity", "MS Office / Outlook">>

AllPaths ==
    {GeneralIT, Questions, RemoteAccess, AnywarePath, CitrixPath, VpnPath,
     Software, Productivity, OutlookPath}

\* the declarative trees / metadata the model is built from (nodes_by_path keys)
FullTree == AllPaths
TreeNoQuestions == AllPaths \ {Questions}
TreeNoGeneral == AllPaths \ {GeneralIT, Questions}
Trees == {FullTree, TreeNoQuestions, TreeNoGeneral}

\* a tree with the target of the teams/camera proximity rule, built with the
\* default max_depth, and the same tree with an entry under the target,
\* built by build_taxonomy_model(config, max_depth=4)
HardwarePath == <<"Hardware">>
PeripheralsPath == <<"Hardware", "Peripherals">>
VideoPath == <<"Hardware", "Peripherals", "Audio / Video Devices">>
WebcamsPath == <<"Hardware", "Peripherals", "Audio / Video Devices", "Webcams">>
VideoTree == {HardwarePath, PeripheralsPath, VideoPath}

\* a tree whose root has a whitelisted vendor name in its label and an entry
\* under it
CatoRoot == <<"VPN (CATO)">>
CatoTree == {CatoRoot, <<"VPN (CATO)", "Citrix (Legacy)">>}
DeepVideoTree == VideoTree \cup {WebcamsPath}

Label(path) == path[Len(path)]

ParentPath(path) == SubSeq(path, 1, Len(path) - 1)

\* TaxonomyNode.children of the node at path, as paths
Children(nodeSet, path) ==
    {c \in nodeSet : Len(c) = Len(path) + 1 /\ ParentPath(c) = path}

\* TaxonomyModel.get_node(path) is not None
HasNode(nodeSet, path) == path \in nodeSet

\* Python's string order on the labels of AllPaths (tuple comparison at
\* equal length compares labels left to right)
LabelOrd(label) ==
    CASE label = "Anyware/RDP VM" -> 1
      [] label = "Audio / Video Devices" -> 2
      [] label = "Citrix (Legacy)" -> 3
      [] label = "General IT" -> 4
      [] label = "Hardware" -> 5
      [] label = "MS Office / Outlook" -> 6
      [] label = "Peripherals" -> 7
      [] label = "Productivity" -> 8
      [] label = "Questions" -> 9
      [] label = "Remote Access" -> 10
      [] label = "Software" -> 11
      [] label = "VPN (CATO)" -> 12
      [] label = "Webcams" -> 13

RECURSIVE PathLess(_, _)
PathLess(p, q) ==
    IF p = <<>> THEN q # <<>>
    ELSE IF q = <<>> THEN FALSE
    ELSE IF p[1] # q[1] THEN LabelOrd(p[1]) < LabelOrd(q[1])
    ELSE PathLess(Tail(p), Tail(q))

\* a derived keyword: its display text, how _matches_term treats its norm
\* ("token": one [A-Za-z0-9_]+ token; "phrase": tokens joined by single
\* spaces; "other": contains other characters) and _raw_tokens(norm)
KW(text, kind, toks) == [text |-> text, kind |-> kind, toks |-> toks]

\* _derive_label_keywords(label), evaluated for the labels of AllPaths
Keywords(label) ==
    CASE label = "General IT" ->
        <<KW("General IT", "phrase", <<"general", "it">>),
          KW("General-IT", "other", <<"general", "it">>),
          KW("GeneralIT", "token", <<"generalit">>),
          KW("general", "token", <<"general">>),
          KW("generals", "token", <<"generals">>),
          KW("it", "token", <<"it">>)>>
      [] label = "Questions" ->
        <<KW("Questions", "token", <<"questions">>),
          KW("question", "token", <<"question">>)>>
      [] label = "Remote Access" ->
        <<KW("Remote Access", "phrase", <<"remote", "access">>),
          KW("Remote-Access", "other", <<"remote", "access">>),
          KW("RemoteAccess", "token", <<"remoteaccess">>),
          KW("remote", "token", <<"remote">>),
          KW("remotes", "token", <<"remotes">>),
          KW("access", "token", <<"access">>),
          KW("acces", "token", <<"acces">>)>>
      [] label = "Anyware/RDP VM" ->
        <<KW("Anyware/RDP VM", "other", <<"anyware", "rdp", "vm">>),
          KW("Anyware/RDP-VM", "other", <<"anyware", "rdp", "vm">>),
          KW("Anyware/RDPVM", "other", <<"anyware", "rdpvm">>),
          KW("Anyware RDP VM", "phrase", <<"anyware", "rdp", "vm">>),
          KW("Anyware-RDP VM", "other", <<"anyware", "rdp", "vm">>),
          KW("anyware", "token", <<"anyware">>),
          KW("anywares", "token", <<"anywares">>),
          KW("rdp", "token", <<"rdp">>),
          KW("rdps", "token", <<"rdps">>),
          KW("vm", "token", <<"vm">>),
          KW("anyware rdp", "phrase", <<"anyware", "rdp">>),
          KW("anywarerdp", "token", <<"anywarerdp">>),
          KW("anyware-rdp", "other", <<"anyware", "rdp">>),
          KW("rdp vm", "phrase", <<"rdp", "vm">>),
          KW("rdpvm", "token", <<"rdpvm">>),
          KW("rdp-vm", "other", <<"rdp", "vm">>),
          KW("anywarerdpvm", "token", <<"anywarerdpvm">>),
          KW("anyware-rdp-vm", "other", <<"anyware", "rdp", "vm">>)>>
      [] label = "Citrix (Legacy)" ->
        <<KW("Citrix (Legacy)", "other", <<"citrix", "legacy">>),
          KW("Citrix-(Legacy)", "other", <<"citrix", "legacy">>),
          KW("Citrix(Legacy)", "other", <<"citrix", "legacy">>),
          KW("citrix", "token", <<"citrix">>),
          KW("citrixs", "token", <<"citrixs">>),
          KW("legacy", "token", <<"legacy">>),
          KW("legacies", "token", <<"legacies">>),
          KW("legacys", "token", <<"legacys">>),
          KW("citrix legacy", "phrase", <<"citrix", "legacy">>),
          KW("citrixlegacy", "token", <<"citrixlegacy">>),
          KW("citrix-legacy", "other", <<"citrix", "legacy">>)>>
      [] label = "VPN (CATO)" ->
        <<KW("VPN (CATO)", "other", <<"vpn", "cato">>),
          KW("VPN-(CATO)", "other", <<"vpn", "cato">>),
          KW("VPN(CATO)", "other", <<"vpn", "cato">>),
          KW("vpn", "token", <<"vpn">>),
          KW("vpns", "token", <<"vpns">>),
          KW("cato", "token", <<"cato">>),
          KW("catos", "token", <<"catos">>),
          KW("vpn cato", "phrase", <<"vpn", "cato">>),
          KW("vpncato", "token", <<"vpncato">>),
          KW("vpn-cato", "other", <<"vpn", "cato">>)>>
      [] label = "Software" ->
        <<KW("Software", "token", <<"software">>),
          KW("softwares", "token", <<"softwares">>)>>
      [] label = "Productivity" ->
        <<KW("Productivity", "token", <<"productivity">>),
          KW("productivities", "token", <<"productivities">>),
          KW("productivitys", "token", <<"productivitys">>)>>
      [] label = "MS Office / Outlook" ->
        <<KW("MS Office / Outlook", "other", <<"ms", "office", "outlook">>),
          KW("MS-Office-/-Outlook", "other", <<"ms", "office", "outlook">>),
          KW("MSOffice/Outlook", "other", <<"msoffice", "outlook">>),
          KW("MS Office   Outlook", "other", <<"ms", "office", "outlook">>),
          KW("MS Office - Outlook", "other", <<"ms", "office", "outlook">>),
          KW("ms", "token", <<"ms">>),
          KW("m", "token", <<"m">>),
          KW("microsoft", "token", <<"microsoft">>),
          KW("office", "token", <<"office">>),
          KW("offices", "token", <<"offices">>),
          KW("outlook", "token", <<"outlook">>),
          KW("outlooks", "token", <<"outlooks">>),
          KW("ms office", "phrase", <<"ms", "office">>),
          KW("msoffice", "token", <<"msoffice">>),
          KW("ms-office", "other", <<"ms", "office">>),
          KW("office outlook", "phrase", <<"office", "outlook">>),
          KW("officeoutlook", "token", <<"officeoutlook">>),
          KW("office-outlook", "other", <<"office", "outlook">>),
          KW("ms office outlook", "phrase", <<"ms", "office", "outlook">>),
          KW("msofficeoutlook", "token", <<"msofficeoutlook">>),
          KW("ms-office-outlook", "other", <<"ms", "office", "outlook">>)>>
      [] label = "Hardware" ->
        <<KW("Hardware", "token", <<"hardware">>),
          KW("hardwares", "token", <<"hardwares">>)>>
      [] label = "Peripherals" ->
        <<KW("Peripherals", "token", <<"peripherals">>),
          KW("peripheral", "token", <<"peripheral">>)>>
      [] label = "Audio / Video Devices" ->
        <<KW("Audio / Video Devices", "other", <<"audio", "video", "devices">>),
          KW("Audio-/-Video-Devices", "other", <<"audio", "video", "devices">>),
          KW("Audio/VideoDevices", "other", <<"audio", "videodevices">>),
          KW("Audio   Video Devices", "other", <<"audio", "video", "devices">>),
          KW("Audio - Video Devices", "other", <<"audio", "video", "devices">>),
          KW("audio", "token", <<"audio">>),
          KW("audios", "token", <<"audios">>),
          KW("video", "token", <<"video">>),
          KW("videos", "token", <<"videos">>),
          KW("devices", "token", <<"devices">>),
          KW("device", "token", <<"device">>),
          KW("audio video", "phrase", <<"audio", "video">>),
          KW("audiovideo", "token", <<"audiovideo">>),
          KW("audio-video", "other", <<"audio", "video">>),
          KW("video devices", "phrase", <<"video", "devices">>),
          KW("videodevices", "token", <<"videodevices">>),
          KW("video-devices", "other", <<"video", "devices">>),
          KW("audio video devices", "phrase", <<"audio", "video", "devices">>),
          KW("audiovideodevices", "token", <<"audiovideodevices">>),
          KW("audio-video-devices", "other", <<"audio", "video", "devices">>)>>
      [] label = "Webcams" ->
        <<KW("Webcams", "token", <<"webcams">>),
          KW("webcam", "token", <<"webcam">>)>>

\* TaxonomyNode.regexes, as the words the patterns look for: the Outlook
\* node is configured with the regex \bmail\b, no other node with any
Regexes(label) == IF label = "MS Office / Outlook" THEN {"mail"} ELSE {}

\* "sub" in label.lower(), for the labels of AllPaths and the guard topics
LabelContains(label, sub) ==
    \/ sub = "vpn" /\ label = "VPN (CATO)"
    \/ sub = "teams" /\ FALSE

(***************************************************************************)
(* Ticket text                                                             *)
(***************************************************************************)
\* the tokens ticket texts are made of
Vocabulary ==
    {"not", "vpn", "cato", "cannot", "citrix", "citrx", "anyware",
     "outlook", "remote"}

\* token.endswith(s) / token.startswith(s) for the tokens of Vocabulary
EndsWith(token, s) == token = s \/ (token = "cannot" /\ s = "not")

StartsWith(token, s) == token = s

\* len(token) >= 3, for the tokens of the texts of the specifications
LongToken(token) == token # "ms"

\* phrase (tokens joined by single spaces) in text_lower, where the text is
\* tokens joined by single spaces: the first phrase token may be the end of
\* a text token and the last one the beginning of a text token
PhraseInText(phrase, tokens) ==
    LET n == Len(phrase)
    IN /\ n >= 1
       /\ \E i \in 1..(Len(tokens) - n + 1) :
            IF n = 1
            THEN EndsWith(tokens[i], phrase[1]) \/ StartsWith(tokens[i], phrase[1])
            ELSE /\ EndsWith(tokens[i], phrase[1])
                 /\ StartsWith(tokens[i + n - 1], phrase[n])
                 /\ \A j \in 2..(n - 1) : tokens[i + j - 1] = phrase[j]

TokenSet(tokens) == Range(tokens)

(***************************************************************************)
(* Keyword matcher                                                         *)
(***************************************************************************)
\* TicketAnalyzer._matches_term on a keyword's norm
MatchesTerm(kw, tokens) ==
    CASE kw.kind = "token" -> kw.toks[1] \in TokenSet(tokens)
      [] kw.kind = "phrase" -> PhraseInText(kw.toks, tokens)
      [] OTHER -> FALSE

\* the matched_keywords list _match_taxonomy collects for one node
MatchedKeywords(path, tokens) ==
    LET kws == Keywords(Label(path))
    IN SelectSeq(kws, LAMBDA kw : MatchesTerm(kw, tokens))

\* the mutant of _confidence whose bonus for extra hits has no cap of its own
ConfidenceUncappedBonus(keyword_hits, depth) ==
    LET base == IF depth >= 3 THEN 90 ELSE IF depth = 2 THEN 80 ELSE 65
        bonus == 5 * Max(0, keyword_hits - 1)
    IN Min(base + bonus, 95)

\* TicketAnalyzer._confidence, in hundredths
Confidence(keyword_hits, depth) ==
    LET base == IF depth >= 3 THEN 90 ELSE IF depth = 2 THEN 80 ELSE 65
        bonus == Min(5 * Max(0, keyword_hits - 1), 9)
    IN Min(base + bonus, 95)

\* a _MatchResult
NewMatch(path, confidence, rationale, matched) ==
    [path |-> path,
     confidence |-> confidence,
     rationale |-> rationale,
     matched_keywords |-> matched,
     tfidf_score |-> 0,
     priority_override |-> <<>>]

\* TicketAnalyzer._match_taxonomy
MatchTaxonomy(nodeSet, tokens) ==
    LET hit == {p \in nodeSet : Len(MatchedKeywords(p, tokens)) > 0}
    IN [p \in hit |->
          LET mk == MatchedKeywords(p, tokens)
          IN NewMatch(p, Confidence(Len(mk), Len(p)), <<"keywords">>,
                      [i \in DOMAIN mk |-> mk[i].text])]

\* the rules _evaluate_aliases finds matched, for rules without a regex
\* whose alias is one word; no caller of _evaluate_aliases exists
AliasMatches(alias_rules, tokens) ==
    SelectSeq(alias_rules,
              LAMBDA rule : MatchesTerm(KW(rule.alias, "token", <<rule.alias>>), tokens))

(***************************************************************************)
(* Proximity booster                                                       *)
(***************************************************************************)
ProximityWindow == 6
ProximityBoost == 10

Rule(path, groups, description) ==
    [path |-> path, term_groups |-> groups, window |-> ProximityWindow,
     boost |-> ProximityBoost, description |-> description]

\* TicketAnalyzer._build_proximity_rules
ProximityRules ==
    <<Rule(<<"Hardware", "Peripherals", "Audio / Video Devices">>,
           <<{<<"teams">>}, {<<"camera">>}>>, "teams/camera proximity"),
      Rule(OutlookPath,
           <<{<<"outlook">>}, {<<"signature">>}>>, "outlook signature proximity"),
      Rule(VpnPath,
           <<{<<"vpn">>, <<"cato">>}, {<<"connect">>, <<"cannot">>, <<"failed">>}>>,
           "vpn connectivity proximity"),
      Rule(<<"Computer Management", "Drive Mapping">>,
           <<{<<"drive">>}, {<<"mapping">>, <<"smb">>}>>, "drive mapping proximity"),
      Rule(<<"Computer Management", "Intune Policy & Configuration">>,
           <<{<<"intune">>}, {<<"policy">>, <<"profile">>, <<"company", "portal">>}>>,
           "intune policy proximity")>>

\* TicketAnalyzer._phrase_positions (0-based start indexes)
PhrasePositions(tokens, phrase) ==
    IF Len(phrase) = 0 \/ Len(phrase) > Len(tokens) THEN {}
    ELSE {i \in 0..(Len(tokens) - Len(phrase)) :
            \A j \in 1..Len(phrase) : tokens[i + j] = phrase[j]}

GroupPositions(tokens, group) ==
    UNION {PhrasePositions(tokens, phrase) : phrase \in group}

\* the mutant of RuleFires whose window is one position shorter
RuleFiresShortWindow(rule, tokens) ==
    /\ Len(rule.term_groups) >= 2
    /\ \A g \in DOMAIN rule.term_groups :
          GroupPositions(tokens, rule.term_groups[g]) # {}
    /\ \E anchor \in GroupPositions(tokens, rule.term_groups[1]) :
          \A g \in 2..Len(rule.term_groups) :
             \E pos \in GroupPositions(tokens, rule.term_groups[g]) :
                Abs(anchor - pos) < rule.window

\* the rule's co-occurrence test (the "found" flag)
RuleFires(rule, tokens) ==
    /\ Len(rule.term_groups) >= 2
    /\ \A g \in DOMAIN rule.term_groups :
          GroupPositions(tokens, rule.term_groups[g]) # {}
    /\ \E anchor \in GroupPositions(tokens, rule.term_groups[1]) :
          \A g \in 2..Len(rule.term_groups) :
             \E pos \in GroupPositions(tokens, rule.term_groups[g]) :
                Abs(anchor - pos) <= rule.window

\* the effect of one fired rule on the candidate map
ApplyRule(mm, rule) ==
    IF rule.path \in DOMAIN mm
    THEN [mm EXCEPT ![rule.path] =
            [@ EXCEPT !.confidence = Min(@ + rule.boost, 95),
                      !.rationale = Append(@, rule.description)]]
    ELSE LET base == Max(Confidence(1, Len(rule.path)) - 10, 50)
         IN [p \in DOMAIN mm \cup {rule.path} |->
               IF p = rule.path
               THEN NewMatch(p, base, <<rule.description>>, <<>>)
               ELSE mm[p]]

RECURSIVE ApplyRulesFrom(_, _, _, _)
ApplyRulesFrom(mm, nodeSet, tokens, k) ==
    IF k > Len(ProximityRules) THEN mm
    ELSE LET rule == ProximityRules[k]
             next == IF HasNode(nodeSet, rule.path) /\ RuleFires(rule, tokens)
                     THEN ApplyRule(mm, rule)
                     ELSE mm
         IN ApplyRulesFrom(next, nodeSet, tokens, k + 1)

\* TicketAnalyzer._apply_proximity_boosts
ApplyProximityBoosts(mm, nodeSet, tokens) ==
    IF Len(tokens) = 0 THEN mm ELSE ApplyRulesFrom(mm, nodeSet, tokens, 1)

(***************************************************************************)
(* Fuzzy matcher                                                           *)
(***************************************************************************)
FuzzyWhitelist ==
    {"anyware", "autodesk", "cato", "cinema4d", "citrix", "intune",
     "mimecast", "teradici", "unreal", "vray"}

\* scores are in hundredths of a point: 8000 is the threshold 80
FuzzyScoreThreshold == 8000
\* _FUZZY_MAX_BOOST, _FUZZY_NEW_MATCH_BASE, _FUZZY_NEW_MATCH_CAP in millionths
FuzzyMaxBoost == 120000
FuzzyNewMatchBase == 450000
FuzzyNewMatchCap == 600000

\* rapidfuzz.fuzz.partial_ratio(seed, token) for the seeds of AllPaths and
\* the tokens of Vocabulary, in hundredths of a point
PartialRatio(seed, token) ==
    CASE seed = token -> 10000
      [] seed = "cato" /\ token = "cat" -> 10000
      [] seed = "cato" /\ token \in {"not", "outlook", "xxcitr"} -> 5000
      [] seed = "cato" /\ token \in {"cannot", "camera"} -> 6667
      [] seed = "cato" /\ token \in {"citrix", "citrx"} -> 5714
      [] seed = "cato" /\ token \in {"anyware", "teams", "video", "access", "office"} -> 4000
      [] seed = "cato" /\ token \in {"mail", "remote", "room", "legacy"} -> 3333
      [] seed = "citrix" /\ token = "citrx" -> 8889
      [] seed = "citrix" /\ token = "xxcitr" -> 8000
      [] seed = "citrix" /\ token = "cat" -> 6667
      [] seed = "citrix" /\ token = "cato" -> 5714
      [] seed = "citrix" /\ token \in {"not", "cannot", "mail"} -> 3333
      [] seed = "citrix" /\ token \in {"anyware", "teams", "access", "office", "legacy"} -> 2500
      [] seed = "citrix" /\ token = "outlook" -> 2222
      [] seed = "citrix" /\ token \in {"remote", "video", "room"} -> 2857
      [] seed = "citrix" /\ token = "camera" -> 3636
      [] seed = "anyware" /\ token \in {"not", "vpn", "cato", "mail"} -> 4000
      [] seed = "anyware" /\ token \in {"cannot", "remote", "cat"} -> 5000
      [] seed = "anyware" /\ token \in {"citrix", "xxcitr"} -> 2500
      [] seed = "anyware" /\ token \in {"citrx", "office"} -> 2857
      [] seed = "anyware" /\ token \in {"access", "legacy"} -> 4444
      [] seed = "anyware" /\ token \in {"teams", "video", "room"} -> 3333
      [] seed = "anyware" /\ token = "camera" -> 4444
      [] OTHER -> 0

\* the seed tokens TicketAnalyzer._build_fuzzy_terms indexes for one node
\* (the label's tokens are among the tokens of its first keyword)
FuzzySeeds(path) ==
    LET kws == Keywords(Label(path))
    IN {t \in FuzzyWhitelist : \E i \in DOMAIN kws : t \in Range(kws[i].toks)}

\* TicketAnalyzer._build_fuzzy_terms: the indexed paths
FuzzyTerms(nodeSet) == {p \in nodeSet : FuzzySeeds(p) # {}}

\* best_score of the seed/token loops
BestScore(seeds, tokens) ==
    IF seeds \cap TokenSet(tokens) # {} THEN 10000
    ELSE LET fuzzy_tokens == {t \in TokenSet(tokens) : LongToken(t)}
             scores == {PartialRatio(s, t) : s \in seeds, t \in fuzzy_tokens}
         IN IF scores = {} THEN 0
            ELSE CHOOSE x \in scores : \A y \in scores : y <= x

\* min(_FUZZY_MAX_BOOST, (best_score / 100.0) * _FUZZY_MAX_BOOST), millionths
FuzzyBoost(score) == Min(FuzzyMaxBoost, score * 12)

\* the mutant of FuzzyOutcome that creates a candidate with the confidence
\* of a keyword hit at its depth
FuzzyOutcomeAsKeywordHit(mm, nodeSet, tokens, path) ==
    LET score == BestScore(FuzzySeeds(path), tokens)
        boost == FuzzyBoost(score)
        before == IF path \in DOMAIN mm THEN <<mm[path]>> ELSE <<>>
    IN IF score < FuzzyScoreThreshold THEN before
       ELSE IF path \in DOMAIN mm
       THEN <<[mm[path] EXCEPT
                 !.confidence = Round2(Min(@ * 10000 + boost, 950000)),
                 !.rationale = Append(@, "fuzzy")]>>
       ELSE IF Children(nodeSet, path) # {} THEN <<>>
       ELSE <<NewMatch(path, Confidence(1, Len(path)), <<"fuzzy">>, <<>>)>>

\* the mutant of FuzzyOutcome that also discards a score of exactly 80
FuzzyOutcomeAbove80(mm, nodeSet, tokens, path) ==
    LET score == BestScore(FuzzySeeds(path), tokens)
        boost == FuzzyBoost(score)
        before == IF path \in DOMAIN mm THEN <<mm[path]>> ELSE <<>>
    IN IF score <= FuzzyScoreThreshold THEN before
       ELSE IF path \in DOMAIN mm
       THEN <<[mm[path] EXCEPT
                 !.confidence = Round2(Min(@ * 10000 + boost, 950000)),
                 !.rationale = Append(@, "fuzzy")]>>
       ELSE IF Children(nodeSet, path) # {} THEN <<>>
       ELSE <<NewMatch(path,
                       Round2(Min(FuzzyNewMatchCap, FuzzyNewMatchBase + boost)),
                       <<"fuzzy">>, <<>>)>>

\* what one indexed path becomes: <<>> when the path has no candidate after
\* the stage, else <<match>>
FuzzyOutcome(mm, nodeSet, tokens, path) ==
    LET score == BestScore(FuzzySeeds(path), tokens)
        boost == FuzzyBoost(score)
        before == IF path \in DOMAIN mm THEN <<mm[path]>> ELSE <<>>
    IN IF score < FuzzyScoreThreshold THEN before
       ELSE IF path \in DOMAIN mm
       THEN <<[mm[path] EXCEPT
                 !.confidence = Round2(Min(@ * 10000 + boost, 950000)),
                 !.rationale = Append(@, "fuzzy")]>>
       ELSE IF Children(nodeSet, path) # {} THEN <<>>
       ELSE <<NewMatch(path,
                       Round2(Min(FuzzyNewMatchCap, FuzzyNewMatchBase + boost)),
                       <<"fuzzy">>, <<>>)>>

\* TicketAnalyzer._apply_fuzzy_matches
ApplyFuzzyMatches(mm, nodeSet, tokens) ==
    IF FuzzyTerms(nodeSet) = {} \/ Len(tokens) = 0 THEN mm
    ELSE LET out(p) == IF p \in FuzzyTerms(nodeSet)
                       THEN FuzzyOutcome(mm, nodeSet, tokens, p)
                       ELSE <<mm[p]>>
             dom == {p \in DOMAIN mm \cup FuzzyTerms(nodeSet) : out(p) # <<>>}
         IN [p \in dom |-> out(p)[1]]

(***************************************************************************)
(* TF-IDF similarity                                                       *)
(***************************************************************************)
TfidfLeafThreshold == 50
TfidfWeight == 35

\* round(100 * math.log(n))
Ln100(n) ==
    CASE n = 1 -> 0
      [] n = 2 -> 69
      [] n = 3 -> 110
      [] n = 4 -> 139
      [] n = 5 -> 161
      [] n = 6 -> 179
      [] n = 7 -> 195
      [] n = 8 -> 208

\* Counter(tokens)
BagOf(tokens) ==
    [t \in Range(tokens) |-> Cardinality({i \in DOMAIN tokens : tokens[i] = t})]

RECURSIVE Flatten(_)
Flatten(seqs) == IF seqs = <<>> THEN <<>> ELSE Head(seqs) \o Flatten(Tail(seqs))

\* the tokens of all keywords of a node (the keyword part of seed_tokens)
KeywordSeedTokens(path) ==
    LET kws == Keywords(Label(path))
    IN Flatten([i \in DOMAIN kws |-> kws[i].toks])

\* the mutant of LabelledPaths that takes the final fields for labels too
LabelledPathsOrFinal(ticket) ==
    LET c1 == IF ticket.category # "" THEN ticket.category ELSE ticket.final_category
        c2 == IF ticket.sub_category # "" THEN ticket.sub_category
              ELSE ticket.final_sub_category
        c3 == IF ticket.item_category # "" THEN ticket.item_category
              ELSE ticket.final_item_category
        p1 == IF c1 # "" THEN <<c1>> ELSE <<>>
        p2 == IF c2 # "" THEN Append(p1, c2) ELSE p1
        p3 == IF c3 # "" THEN Append(p2, c3) ELSE p2
    IN (IF c1 # "" THEN {p1} ELSE {})
         \cup (IF c2 # "" THEN {p2} ELSE {})
         \cup (IF c3 # "" THEN {p3} ELSE {})

\* the paths a ticket's existing category fields resolve to (path_tuple of
\* each of the three steps)
LabelledPaths(ticket) ==
    LET p1 == IF ticket.category # "" THEN <<ticket.category>> ELSE <<>>
        p2 == IF ticket.sub_category # "" THEN Append(p1, ticket.sub_category) ELSE p1
        p3 == IF ticket.item_category # "" THEN Append(p2, ticket.item_category) ELSE p2
    IN (IF ticket.category # "" THEN {p1} ELSE {})
         \cup (IF ticket.sub_category # "" THEN {p2} ELSE {})
         \cup (IF ticket.item_category # "" THEN {p3} ELSE {})

\* tokens_by_path[path]: the tokens of the tickets already labelled with path
RECURSIVE TokensByPathFrom(_, _, _)
TokensByPathFrom(tickets, path, k) ==
    IF k > Len(tickets) THEN <<>>
    ELSE (IF path \in LabelledPaths(tickets[k]) THEN tickets[k].tokens ELSE <<>>)
            \o TokensByPathFrom(tickets, path, k + 1)

\* the mutant of TokensByPath that learns from the first ticket of the batch
\* only
TokensByPathOfFirst(tickets, nodeSet, path) ==
    IF HasNode(nodeSet, path) /\ tickets # <<>>
    THEN TokensByPathFrom(<<tickets[1]>>, path, 1) ELSE <<>>

TokensByPath(tickets, nodeSet, path) ==
    IF HasNode(nodeSet, path) THEN TokensByPathFrom(tickets, path, 1) ELSE <<>>

\* idf_map.get(token, default_idf), in hundredths
Idf(tickets, token) ==
    LET doc_count == Len(tickets)
        freq == Cardinality({k \in DOMAIN tickets : token \in Range(tickets[k].tokens)})
    IN IF freq = 0 THEN Ln100(1 + doc_count) + 100
       ELSE Ln100(1 + doc_count) - Ln100(1 + freq) + 100

\* the unnormalised weights of _build_tfidf_vector, times the token total
\* (the total cancels in the normalisation)
Weights(tickets, tokens) ==
    LET bag == BagOf(tokens)
    IN [t \in DOMAIN bag |-> bag[t] * Idf(tickets, t)]

NormOf(w) == ISqrt(SumOver([t \in DOMAIN w |-> w[t] * w[t]], DOMAIN w))

\* _cosine_similarity of the two normalised vectors, in thousandths; a
\* positive similarity stays positive
Cosine(wa, wb) ==
    LET common == DOMAIN wa \cap DOMAIN wb
        dot == SumOver([t \in common |-> wa[t] * wb[t]], common)
        denom == Max(1, (NormOf(wa) * NormOf(wb)) \div 10)
    IN IF dot = 0 THEN 0 ELSE Min(1000, Max(1, (dot * 100) \div denom))

\* the mutant of PrototypeTokens that takes the text of every ticket, with
\* or without a label
PrototypeTokensOfAllTickets(tickets, nodeSet, path) ==
    KeywordSeedTokens(path) \o Flatten([k \in DOMAIN tickets |-> tickets[k].tokens])

\* the prototype's seed tokens of one leaf
PrototypeTokens(tickets, nodeSet, path) ==
    KeywordSeedTokens(path) \o TokensByPath(tickets, nodeSet, path)

\* prototype_paths of _build_tfidf_artifacts
PrototypePaths(nodeSet) == {p \in nodeSet : Children(nodeSet, p) = {}}

\* _build_tfidf_artifacts(tickets) is None
NoArtifacts(tickets, nodeSet) ==
    \/ Len(tickets) = 0
    \/ \A k \in DOMAIN tickets : Len(tickets[k].tokens) = 0
    \/ PrototypePaths(nodeSet) = {}

\* TicketAnalyzer._compute_tfidf_scores: <<>> for None, else <<score_maps>>
ComputeTfidfScores(tickets, nodeSet) ==
    IF NoArtifacts(tickets, nodeSet) THEN <<>>
    ELSE <<[k \in DOMAIN tickets |->
              LET wt == Weights(tickets, tickets[k].tokens)
                  sim(p) == Cosine(wt, Weights(tickets, PrototypeTokens(tickets, nodeSet, p)))
                  pos == {p \in PrototypePaths(nodeSet) : sim(p) > 0}
              IN [p \in pos |-> sim(p)]]>>

\* the mutant of TfidfOutcome that adds the boost without the 0.95 cap
TfidfOutcomeUncapped(mm, nodeSet, path, score) ==
    IF path \in DOMAIN mm
    THEN <<[mm[path] EXCEPT
              !.tfidf_score = Max(@, score),
              !.confidence = Round2(mm[path].confidence * 10000
                                      + score * TfidfWeight * 10),
              !.rationale = Append(@, "tf-idf")]>>
    ELSE IF Children(nodeSet, path) # {} THEN <<>>
    ELSE IF score < TfidfLeafThreshold THEN <<>>
    ELSE <<[NewMatch(path,
                     Round2(Min(500000 + score * TfidfWeight * 10, 900000)),
                     <<"tf-idf similarity">>, <<>>)
              EXCEPT !.tfidf_score = score]>>

\* the mutant of TfidfOutcome that only boosts candidates that exist already
TfidfOutcomeBoostOnly(mm, nodeSet, path, score) ==
    IF path \in DOMAIN mm
    THEN <<[mm[path] EXCEPT
              !.tfidf_score = Max(@, score),
              !.confidence = Round2(Min(mm[path].confidence * 10000
                                          + score * TfidfWeight * 10, 950000)),
              !.rationale = Append(@, "tf-idf")]>>
    ELSE <<>>

\* the mutant of TfidfOutcome that wants the score above the threshold
TfidfOutcomeStrict(mm, nodeSet, path, score) ==
    IF path \in DOMAIN mm
    THEN <<[mm[path] EXCEPT
              !.tfidf_score = Max(@, score),
              !.confidence = Round2(Min(mm[path].confidence * 10000
                                          + score * TfidfWeight * 10, 950000)),
              !.rationale = Append(@, "tf-idf")]>>
    ELSE IF Children(nodeSet, path) # {} THEN <<>>
    ELSE IF score <= TfidfLeafThreshold THEN <<>>
    ELSE <<[NewMatch(path,
                     Round2(Min(500000 + score * TfidfWeight * 10, 900000)),
                     <<"tf-idf similarity">>, <<>>)
              EXCEPT !.tfidf_score = score]>>

\* what one scored path becomes in _apply_tfidf_scores
TfidfOutcome(mm, nodeSet, path, score) ==
    IF path \in DOMAIN mm
    THEN <<[mm[path] EXCEPT
              !.tfidf_score = Max(@, score),
              !.confidence = Round2(Min(mm[path].confidence * 10000
                                          + score * TfidfWeight * 10, 950000)),
              !.rationale = Append(@, "tf-idf")]>>
    ELSE IF Children(nodeSet, path) # {} THEN <<>>
    ELSE IF score < TfidfLeafThreshold THEN <<>>
    ELSE <<[NewMatch(path,
                     Round2(Min(500000 + score * TfidfWeight * 10, 900000)),
                     <<"tf-idf similarity">>, <<>>)
              EXCEPT !.tfidf_score = score]>>

\* TicketAnalyzer._apply_tfidf_scores
ApplyTfidfScores(mm, nodeSet, tfidf_map) ==
    LET scored == {p \in DOMAIN tfidf_map : tfidf_map[p] > 0 /\ HasNode(nodeSet, p)}
        out(p) == IF p \in scored
                  THEN TfidfOutcome(mm, nodeSet, p, tfidf_map[p])
                  ELSE <<mm[p]>>
        dom == {p \in DOMAIN mm \cup scored : out(p) # <<>>}
    IN [p \in dom |-> out(p)[1]]

(***************************************************************************)
(* Negative-keyword demoter                                                *)
(***************************************************************************)
\* priority_map.get(path, len(priority_map) + 1)
BasePriority(pm, path) ==
    IF path \in DOMAIN pm THEN pm[path] ELSE Cardinality(DOMAIN pm) + 1

\* one demotion: confidence down by amount (floor 0.05), priority pushed
\* down by len(priority_map) + penalty, note appended
Demote(m, pm, amount, penalty, note) ==
    [m EXCEPT !.confidence = Max(@ - amount, 5),
              !.priority_override =
                  <<BasePriority(pm, m.path) + Cardinality(DOMAIN pm) + penalty>>,
              !.rationale = Append(@, note)]

PathMentions(path, topic) == \E i \in DOMAIN path : LabelContains(path[i], topic)

CitrixNote == "demoted due to Anyware/RDP context"
VpnNote == "reduced by 'not vpn' guard"
TeamsNote == "reduced by 'not a teams issue' guard"

\* the mutant of CitrixGuard that removes the candidate
CitrixGuardDeleting(mm, pm, tokens) ==
    IF CitrixPath \in DOMAIN mm /\ {"anyware", "rdp", "cato"} \cap TokenSet(tokens) # {}
    THEN [p \in DOMAIN mm \ {CitrixPath} |-> mm[p]]
    ELSE mm

\* the Citrix (Legacy) guard
CitrixGuard(mm, pm, tokens) ==
    IF CitrixPath \in DOMAIN mm /\ {"anyware", "rdp", "cato"} \cap TokenSet(tokens) # {}
    THEN [mm EXCEPT ![CitrixPath] = Demote(@, pm, 30, 10, CitrixNote)]
    ELSE mm

\* the mutant of VpnGuard that takes the Citrix guard's amount off
VpnGuardLight(mm, pm, tokens) ==
    IF PhraseInText(<<"not", "vpn">>, tokens)
    THEN [p \in DOMAIN mm |->
            IF PathMentions(p, "vpn") THEN Demote(mm[p], pm, 30, 5, VpnNote) ELSE mm[p]]
    ELSE mm

\* the 'not vpn' guard
VpnGuard(mm, pm, tokens) ==
    IF PhraseInText(<<"not", "vpn">>, tokens)
    THEN [p \in DOMAIN mm |->
            IF PathMentions(p, "vpn") THEN Demote(mm[p], pm, 45, 5, VpnNote) ELSE mm[p]]
    ELSE mm

\* the 'not a teams issue' / 'not a teams problem' guard
TeamsGuard(mm, pm, tokens) ==
    IF \/ PhraseInText(<<"not", "a", "teams", "issue">>, tokens)
       \/ PhraseInText(<<"not", "a", "teams", "problem">>, tokens)
    THEN [p \in DOMAIN mm |->
            IF PathMentions(p, "teams") THEN Demote(mm[p], pm, 35, 5, TeamsNote) ELSE mm[p]]
    ELSE mm

\* TicketAnalyzer._apply_negative_keywords
ApplyNegativeKeywords(mm, pm, tokens) ==
    IF DOMAIN mm = {} THEN mm
    ELSE TeamsGuard(VpnGuard(CitrixGuard(mm, pm, tokens), pm, tokens), pm, tokens)

(***************************************************************************)
(* Ranker and selector                                                     *)
(***************************************************************************)
\* the mutant of SortKey that forgets the demotion's priority_override
SortKeyNoOverride(m, pm) ==
    <<BasePriority(pm, m.path), 0 - Len(m.path), 0 - m.confidence, m.path>>

\* sort_key of _sorted_matches
SortKey(m, pm) ==
    LET priority_rank == IF m.priority_override # <<>>
                         THEN m.priority_override[1]
                         ELSE BasePriority(pm, m.path)
    IN <<priority_rank, 0 - Len(m.path), 0 - m.confidence, m.path>>

\* Python's tuple comparison k1 < k2 of two sort keys
KeyLess(k1, k2) ==
    \/ k1[1] < k2[1]
    \/ k1[1] = k2[1] /\ k1[2] < k2[2]
    \/ k1[1] = k2[1] /\ k1[2] = k2[2] /\ k1[3] < k2[3]
    \/ k1[1] = k2[1] /\ k1[2] = k2[2] /\ k1[3] = k2[3] /\ PathLess(k1[4], k2[4])

RECURSIVE SortPaths(_, _, _)
SortPaths(mm, pm, left) ==
    IF left = {} THEN <<>>
    ELSE LET first == CHOOSE p \in left :
                         \A q \in left \ {p} :
                            KeyLess(SortKey(mm[p], pm), SortKey(mm[q], pm))
         IN <<mm[first]>> \o SortPaths(mm, pm, left \ {first})

\* TicketAnalyzer._sorted_matches
SortedMatches(mm, pm) == SortPaths(mm, pm, DOMAIN mm)

\* the primary selection loop: <<>> for None, else <<match>>
PrimaryOf(ordered) ==
    LET firstAt(d) == {i \in DOMAIN ordered :
                          /\ Len(ordered[i].path) = d
                          /\ \A j \in 1..(i - 1) : Len(ordered[j].path) # d}
        pick(d) == ordered[CHOOSE i \in firstAt(d) : TRUE]
    IN IF firstAt(3) # {} THEN <<pick(3)>>
       ELSE IF firstAt(2) # {} THEN <<pick(2)>>
       ELSE IF firstAt(1) # {} THEN <<pick(1)>>
       ELSE <<>>

FallbackRationale == "Fallback to General IT > Questions"

\* the mutant of FallbackMatch that looks for the bare General IT node first
FallbackMatchTopFirst(nodeSet) ==
    LET deep == {p \in nodeSet :
                    Len(p) >= 2 /\ p[1] = "General IT" /\ p[2] = "Questions"}
        top == {p \in nodeSet : Len(p) = 1 /\ p[1] = "General IT"}
        target == IF top # {} THEN <<GeneralIT>>
                  ELSE IF deep # {} THEN <<Questions>>
                  ELSE <<>>
        conf(d) == IF d = 3 THEN 60 ELSE IF d = 2 THEN 55 ELSE IF d = 1 THEN 50 ELSE 45
    IN IF target = <<>> THEN <<>>
       ELSE <<NewMatch(target[1], conf(Len(target[1])), <<FallbackRationale>>, <<>>)>>

\* the mutant of FallbackMatch with one confidence for every depth
FallbackMatchFlat(nodeSet) ==
    LET deep == {p \in nodeSet :
                    Len(p) >= 2 /\ p[1] = "General IT" /\ p[2] = "Questions"}
        top == {p \in nodeSet : Len(p) = 1 /\ p[1] = "General IT"}
        target == IF deep # {} THEN <<Questions>>
                  ELSE IF top # {} THEN <<GeneralIT>>
                  ELSE <<>>
    IN IF target = <<>> THEN <<>>
       ELSE <<NewMatch(target[1], 55, <<FallbackRationale>>, <<>>)>>

\* TicketAnalyzer._fallback_match: <<>> for None, else <<match>>
FallbackMatch(nodeSet) ==
    LET deep == {p \in nodeSet :
                    Len(p) >= 2 /\ p[1] = "General IT" /\ p[2] = "Questions"}
        top == {p \in nodeSet : Len(p) = 1 /\ p[1] = "General IT"}
        target == IF deep # {} THEN <<Questions>>
                  ELSE IF top # {} THEN <<GeneralIT>>
                  ELSE <<>>
        conf(d) == IF d = 3 THEN 60 ELSE IF d = 2 THEN 55 ELSE IF d = 1 THEN 50 ELSE 45
    IN IF target = <<>> THEN <<>>
       ELSE <<NewMatch(target[1], conf(Len(target[1])), <<FallbackRationale>>, <<>>)>>

\* the mutant of WithFallback that also inserts the primary selection first
WithPrimaryFirst(ordered, nodeSet) ==
    IF PrimaryOf(ordered) # <<>> THEN PrimaryOf(ordered) \o ordered
    ELSE FallbackMatch(nodeSet) \o ordered

\* ordered_matches after the fallback step, and the primary flag
WithFallback(ordered, nodeSet) ==
    IF PrimaryOf(ordered) # <<>> THEN ordered
    ELSE FallbackMatch(nodeSet) \o ordered

HasPrimary(ordered, nodeSet) ==
    PrimaryOf(ordered) # <<>> \/ FallbackMatch(nodeSet) # <<>>

(***************************************************************************)
(* Suggestion assembler                                                    *)
(***************************************************************************)
\* max(1, max_suggestions_per_ticket) of TicketAnalyzer.__init__
Clamp(configured) == Max(1, configured)

\* a SuggestedCategory built from one match
Suggestion(m) ==
    [category |-> IF Len(m.path) >= 1 THEN m.path[1] ELSE NoneValue,
     sub_category |-> IF Len(m.path) >= 2 THEN m.path[2] ELSE NoneValue,
     item_category |-> IF Len(m.path) >= 3 THEN m.path[3] ELSE NoneValue,
     confidence |-> m.confidence,
     rationale |-> m.rationale]

\* the mutant of SuggestionList that forgets the slice
SuggestionListUnsliced(ordered, limit) ==
    [i \in 1..Len(ordered) |-> Suggestion(ordered[i])]

\* suggestion_list: the first max_suggestions_per_ticket ordered matches
SuggestionList(ordered, limit) ==
    [i \in 1..Min(limit, Len(ordered)) |-> Suggestion(ordered[i])]

\* the mutant of FinalFields that writes the primary selection back
FinalFieldsOfPrimary(list, ordered) ==
    LET chosen == IF PrimaryOf(ordered) # <<>> THEN PrimaryOf(ordered)[1] ELSE ordered[1]
        s == Suggestion(chosen)
    IN <<OrEmpty(s.category), OrEmpty(s.sub_category), OrEmpty(s.item_category)>>

\* the final fields written when primary is set: top = suggestion_list[0]
FinalFields(list, ordered) ==
    <<OrEmpty(list[1].category), OrEmpty(list[1].sub_category),
      OrEmpty(list[1].item_category)>>

(***************************************************************************)
(* Priority table of build_taxonomy_model                                  *)
(***************************************************************************)
\* _normalise_priority_path of an entry given as its ">"-separated,
\* stripped segments: empty segments are dropped
NormalisePriorityPath(entry) == SelectSeq(entry, LAMBDA part : part # "")

\* the priority_order entries a configuration may list: a blank string and
\* two paths of the tree
PriorityEntries == {<<"">>, VpnPath, OutlookPath}

\* priority_map[path] = index
RecordPriority(pm, path, idx) ==
    [p \in DOMAIN pm \cup {path} |-> IF p = path THEN idx ELSE pm[p]]

(***************************************************************************)
(* Tree of build_taxonomy_model                                            *)
(***************************************************************************)
\* max_depth of build_taxonomy_model
MaxDepth == 3

\* the "label" of a tree entry: a label, a blank string, or NoneValue for an
\* entry without the key
TreeLabels == {"A", "B", " ", NoneValue}

\* label.strip()
Strip(label) == IF label = " " THEN "" ELSE label

\* a tree is given by its entries in the order _build_node visits them (an
\* entry, then its children), each with its nesting depth
TreeRows == [depth : 1..(MaxDepth + 1), label : TreeLabels]

\* the entries that may follow the entries rows: nested at most one level
\* below the last one
NextRows(rows) ==
    {row \in TreeRows :
        row.depth <= (IF rows = <<>> THEN 1 ELSE rows[Len(rows)].depth + 1)}

\* the trees of n entries; an entry without a non-empty label is the last
\* one of its tree, since no entry after it is ever visited
RECURSIVE TreesOfLen(_)
TreesOfLen(n) ==
    IF n = 0 THEN {<<>>}
    ELSE UNION {{Append(rows, row) : row \in NextRows(rows)} :
                   rows \in {r \in TreesOfLen(n - 1) :
                               \A i \in DOMAIN r : Strip(r[i].label) \notin {"", NoneValue}}}

ConfiguredTrees == UNION {TreesOfLen(n) : n \in 0..MaxTreeEntries}

\* the entry whose children list holds entry i
ParentRow(rows, i) ==
    LET above == {j \in 1..(i - 1) : rows[j].depth = rows[i].depth - 1}
    IN CHOOSE j \in above : \A k \in above : k <= j

\* path = parent_path + (label,)
RECURSIVE RowPath(_, _)
RowPath(rows, i) ==
    IF rows[i].depth = 1 THEN <<Strip(rows[i].label)>>
    ELSE Append(RowPath(rows, ParentRow(rows, i)), Strip(rows[i].label))

\* the "aliases" lists of a configuration: none, an alias of an existing
\* node, an alias of an unknown path, an alias without a target
AliasLists ==
    {<<>>,
     <<[alias |-> "vpn", target |-> <<"A">>]>>,
     <<[alias |-> "vpn", target |-> <<"Z">>]>>,
     <<[alias |-> "vpn", target |-> <<>>]>>}

\* available_taxonomy: the category names, the sub-categories by parent
\* label and the item categories by (category, sub-category), the two
\* dictionaries as the sequences of their items
AvailableTaxonomy(categories, subcategories, item_categories) ==
    [categories |-> categories, subcategories |-> subcategories,
     item_categories |-> item_categories]

\* the field metadata: none, or category names without sub-categories
Metadata == {<<>>, <<AvailableTaxonomy(<<"A", " ">>, <<>>, <<>>)>>}

\* the labels of the metadata lists, and the keys of its dictionaries,
\* where NoneValue is a missing parent
MetaLabels == {"A", "B", " "}
MetaKeys == MetaLabels \cup {NoneValue}

\* the category lists, the sub-category dictionaries and the item
\* dictionaries of the metadata the structure of the model is checked on
MetaCategories == SeqsUpTo(MetaLabels, MaxMetaEntries)

MetaSubcategories ==
    {<<>>}
      \cup {<<[parent |-> k, entries |-> e]>> :
               k \in MetaKeys,
               e \in {<<"A">>, <<"B">>, <<"A", "B">>, <<"B", "B">>, <<" ", "A">>}}

MetaItems ==
    {<<>>}
      \cup {<<[category |-> c, sub |-> k, entries |-> e]>> :
               c \in MetaKeys, k \in MetaKeys, e \in {<<"A">>, <<"B", "A">>}}

\* what a call _ensure_node(label, parent_path) returns: the path of the
\* node, <<>> for None
Ensured(label, parent_path) ==
    IF label = NoneValue \/ Strip(label) = "" THEN <<>>
    ELSE IF Len(parent_path) + 1 > MaxDepth THEN <<>>
    ELSE Append(parent_path, Strip(label))

EnsureCall(label, parent_path) == [label |-> label, parent_path |-> parent_path]

\* a parent label that is None or "" is not looked up
Truthy(label) == label # NoneValue /\ label # ""

\* the calls of _ensure_node one sub-category item makes
SubcategoryCalls(item) ==
    LET parent_path == IF Truthy(item.parent) THEN Ensured(item.parent, <<>>) ELSE <<>>
    IN (IF Truthy(item.parent) THEN <<EnsureCall(item.parent, <<>>)>> ELSE <<>>)
         \o [i \in DOMAIN item.entries |-> EnsureCall(item.entries[i], parent_path)]

\* the calls of _ensure_node one item-category item makes
ItemCalls(item) ==
    LET category_path == IF Truthy(item.category) THEN Ensured(item.category, <<>>) ELSE <<>>
        sub_path == IF Truthy(item.sub) THEN Ensured(item.sub, category_path) ELSE <<>>
        current_path == IF sub_path # <<>> THEN sub_path ELSE category_path
    IN (IF Truthy(item.category) THEN <<EnsureCall(item.category, <<>>)>> ELSE <<>>)
         \o (IF Truthy(item.sub) THEN <<EnsureCall(item.sub, category_path)>> ELSE <<>>)
         \o [i \in DOMAIN item.entries |-> EnsureCall(item.entries[i], current_path)]

\* the calls of _ensure_node the three loops of _build_model_from_metadata
\* make, in order
MetadataCalls(md) ==
    [i \in DOMAIN md.categories |-> EnsureCall(md.categories[i], <<>>)]
      \o Flatten([i \in DOMAIN md.subcategories |-> SubcategoryCalls(md.subcategories[i])])
      \o Flatten([i \in DOMAIN md.item_categories |-> ItemCalls(md.item_categories[i])])

\* nodes_by_path[path] = node, for a new node without children
Register(b, path) ==
    [b EXCEPT !.nodes_by_path = @ \cup {path},
              !.registered = Append(@, path),
              !.children = [p \in DOMAIN @ \cup {path} |->
                               IF p = path THEN <<>> ELSE @[p]]]

\* parent.children.append(node)
AppendChild(b, parent_path, path) ==
    [b EXCEPT !.children[parent_path] = Append(@, path)]

\* the mutant of _ensure_node that appends the node to its parent's
\* children whether or not the node is new
RECURSIVE EnsureNodeAlwaysAppends(_, _, _)
EnsureNodeAlwaysAppends(b, label, parent_path) ==
    LET path == Append(parent_path, Strip(label))
    IN IF label = NoneValue \/ Strip(label) = "" THEN b
       ELSE IF Len(path) > MaxDepth
       THEN [b EXCEPT !.warnings = Append(@, "label exceeds max depth")]
       ELSE LET made == IF path \in b.nodes_by_path THEN b ELSE Register(b, path)
            IN IF parent_path = <<>> THEN made
               ELSE LET ensured ==
                           IF parent_path \in made.nodes_by_path THEN made
                           ELSE EnsureNodeAlwaysAppends(
                                    made, parent_path[Len(parent_path)],
                                    ParentPath(parent_path))
                    IN IF parent_path \in ensured.nodes_by_path
                       THEN AppendChild(ensured, parent_path, path)
                       ELSE ensured

\* _ensure_node(label, parent_path), with the call it makes for a parent
\* that is not registered
RECURSIVE EnsureNode(_, _, _)
EnsureNode(b, label, parent_path) ==
    LET path == Append(parent_path, Strip(label))
    IN IF label = NoneValue \/ Strip(label) = "" THEN b
       ELSE IF Len(path) > MaxDepth
       THEN [b EXCEPT !.warnings = Append(@, "label exceeds max depth")]
       ELSE IF path \in b.nodes_by_path THEN b
       ELSE LET made == Register(b, path)
            IN IF parent_path = <<>> THEN made
               ELSE LET ensured ==
                           IF parent_path \in made.nodes_by_path THEN made
                           ELSE EnsureNode(made, parent_path[Len(parent_path)],
                                           ParentPath(parent_path))
                    IN IF parent_path \in ensured.nodes_by_path
                       THEN AppendChild(ensured, parent_path, path)
                       ELSE ensured

\* entry i and the entries above it whose calls of _build_node are running
\* when entry i is visited
RECURSIVE OpenRows(_, _)
OpenRows(rows, i) ==
    IF rows[i].depth = 1 THEN {i} ELSE {i} \cup OpenRows(rows, ParentRow(rows, i))

\* the calls of _build_node that return before the entry after entry i is
\* visited: those of entries nested at least as deep as that entry, all of
\* them after the last entry
ReturningRows(rows, i) ==
    {j \in OpenRows(rows, i) : i = Len(rows) \/ rows[i + 1].depth <= rows[j].depth}

\* node.children.append(child_node) for the calls that return after entry i
LinkReturned(b, rows, i) ==
    [b EXCEPT !.children =
        [p \in DOMAIN @ |->
            LET kids == {j \in ReturningRows(rows, i) :
                            rows[j].depth > 1 /\ ParentPath(RowPath(rows, j)) = p}
            IN IF kids = {} THEN @[p]
               ELSE Append(@[p], RowPath(rows, CHOOSE j \in kids : TRUE))]]

\* the config argument: <<>> for None, else the taxonomy section, whose
\* "tree" is <<>> when it is missing or not a list, else <<entries>>
BuildConfigs ==
    {<<>>}
      \cup {<<[tree |-> <<>>, aliases |-> <<>>]>>}
      \cup {<<[tree |-> <<rows>>, aliases |-> al]>> : rows \in ConfiguredTrees, al \in AliasLists}

NoBuild ==
    [config |-> <<>>, metadata |-> <<>>, next |-> 0, nodes_by_path |-> {},
     registered |-> <<>>, children |-> <<>>, calls |-> <<>>,
     alias_rules |-> <<>>, warnings |-> <<>>, error |-> ""]

\* _build_node without the check for a path that is already registered
BuildNodeErrorNoDuplicateCheck(rows, i, nodes_by_path) ==
    IF rows[i].label = NoneValue THEN "node without label"
    ELSE IF Strip(rows[i].label) = "" THEN "empty label"
    ELSE IF Len(RowPath(rows, i)) > MaxDepth THEN "depth exceeded"
    ELSE ""

\* what _build_node does with entry i: "" when it registers the node, else
\* the ValueError it raises
BuildNodeError(rows, i, nodes_by_path) ==
    IF rows[i].label = NoneValue THEN "node without label"
    ELSE IF Strip(rows[i].label) = "" THEN "empty label"
    ELSE IF Len(RowPath(rows, i)) > MaxDepth THEN "depth exceeded"
    ELSE IF RowPath(rows, i) \in nodes_by_path THEN "duplicate path"
    ELSE ""

(***************************************************************************)
(* Ticket updates and the update tracker                                   *)
(***************************************************************************)
TicketIds == {101, 102}

\* _normalize_value: None, and "" after strip(), become None
NormalizeValue(value) == IF value \in {NoneValue, "", " "} THEN NoneValue ELSE value

\* the review rows: the three category fields move together, so one field
\* stands for the triple
ReviewRows ==
    [ticket_id : TicketIds,
     manager_decision : {"approve", "decline"},
     final_category : {" ", "Software"},
     current_category : {"", "Software"}]

\* what the calls of client.update_ticket for one row do, in order (return
\* the ticket, raise HTTPError 429, raise another HTTPError), and the
\* client's _sleep_between_requests
ClientOutcomes ==
    {[calls |-> <<"ok">>, delay |-> <<1>>],
     [calls |-> <<"500">>, delay |-> <<1>>],
     [calls |-> <<"429", "ok">>, delay |-> <<0>>],
     [calls |-> <<"429", "429", "ok">>, delay |-> <<1>>],
     [calls |-> <<"429", "429", "429">>, delay |-> <<1>>]}

\* max_attempts of _submit_with_retry
MaxAttempts == 3

\* what one call of client.update_ticket does: return the ticket, or raise
\* HTTPError with a response of status 429, 500 or 404
HttpOutcomes == {"ok", "429", "500", "404"}

\* _is_rate_limit_error
IsRateLimitError(outcome) == outcome = "429"

\* the attribute client._sleep_between_requests: <<d>> for 60 /
\* rate_limit_per_minute (negative for a negative limit) and for 0.0 without
\* a limit, <<>> for a client that has no such attribute
ClientDelays == {<<>>, <<-1>>, <<0>>, <<1>>, <<2>>}

\* _rate_limit_delay: getattr with the default 0.0
RateLimitDelay(delay) == IF delay = <<>> THEN 0 ELSE delay[1]

\* the mutant of RetryDecision that retries every HTTPError
RetryDecisionAnyError(outcome, delay, attempt) ==
    IF outcome = "ok" THEN "return"
    ELSE IF RateLimitDelay(delay) <= 0 \/ attempt >= MaxAttempts THEN "raise"
    ELSE "sleep"

\* one iteration of the loop of _submit_with_retry, after attempt was
\* incremented: return the response, sleep and continue, or raise
RetryDecision(outcome, delay, attempt) ==
    IF outcome = "ok" THEN "return"
    ELSE IF ~IsRateLimitError(outcome) THEN "raise"
    ELSE IF RateLimitDelay(delay) <= 0 \/ attempt >= MaxAttempts THEN "raise"
    ELSE "sleep"

\* _submit_with_retry from attempt on: the response (<<>> when HTTPError
\* is raised), the status of the raised error and the number of calls of
\* client.update_ticket
RECURSIVE SubmitWithRetry(_, _, _)
SubmitWithRetry(outcomes, delay, attempt) ==
    LET decision == RetryDecision(outcomes[attempt], delay, attempt)
    IN IF decision = "return"
       THEN [response |-> <<"ticket">>, status_code |-> NoneValue, client_calls |-> attempt]
       ELSE IF decision = "sleep" THEN SubmitWithRetry(outcomes, delay, attempt + 1)
       ELSE [response |-> <<>>, status_code |-> outcomes[attempt], client_calls |-> attempt]

(***************************************************************************)
(* Pagination of iter_tickets and iter_requesters                          *)
(***************************************************************************)
\* FreshserviceClient.__init__: per_page is kept between 30 and 100
ClampPerPage(per_page) == Min(Max(per_page, 30), 100)

\* the per_page values a client is made with
ConfiguredPerPage == {1, 31, 500}

\* the two generators; they differ in the endpoint and the payload key
Endpoints == {"tickets", "requesters"}

\* the items of a page of n items, as the server sends them
ServerPage(page, n) == [k \in 1..n |-> <<page, k>>]

\* the numbers of items the server may send for the next request: an empty
\* page, one item, one fewer than asked for, or a full page; request number
\* MaxPages is never answered with a full page
PageSizes(it) ==
    LET short == {0, 1, it.per_page - 1}
    IN IF Len(it.requested) + 1 >= MaxPages THEN short ELSE short \cup {it.per_page}

\* the generator was made and has not run
NewIterator(per_page, endpoint, with_callback) ==
    [per_page |-> ClampPerPage(per_page), endpoint |-> endpoint,
     with_callback |-> with_callback, status |-> "new", page |-> 1,
     processed |-> 0, pending |-> <<>>, page_len |-> 0,
     requested |-> <<>>, sizes |-> <<>>, yielded |-> <<>>, callbacks |-> <<>>]

\* no client
NoIterator == NewIterator(30, "tickets", FALSE)

\* the mutant of PageIsLast that also stops on a full page
PageIsLastOrFull(it) == it.page_len <= it.per_page

\* if len(tickets) < self.per_page: break
PageIsLast(it) == it.page_len < it.per_page

\* after the for loop over a page: processed += len(tickets) and the
\* progress callback
CountPage(it) ==
    [it EXCEPT !.processed = @ + it.page_len,
               !.callbacks = IF it.with_callback
                             THEN Append(@, it.processed + it.page_len) ELSE @]

\* yield the next item of the page held
YieldItem(it) ==
    [it EXCEPT !.yielded = Append(@, Head(it.pending)),
               !.pending = Tail(it.pending),
               !.status = "suspended"]

\* self._request for the page, answered with n items, up to the first
\* yield; an empty page goes to the end of the loop body at once and, being
\* shorter than per_page (which is 30 at least), ends the generator
RequestPage(it, page, n) ==
    LET got == [it EXCEPT !.page = page,
                          !.requested = Append(@, page),
                          !.sizes = Append(@, n),
                          !.page_len = n,
                          !.pending = ServerPage(page, n)]
    IN IF n > 0 THEN YieldItem(got)
       ELSE IF PageIsLast(got) THEN [CountPage(got) EXCEPT !.status = "done"]
       ELSE [got EXCEPT !.status = "suspended"]

\* one next() on the generator: from its start or from the latest yield to
\* the next yield or to its end
Resume(it, n) ==
    IF it.status = "new" THEN RequestPage(it, 1, n)
    ELSE IF it.pending # <<>> THEN YieldItem(it)
    ELSE IF PageIsLast(it) THEN [CountPage(it) EXCEPT !.status = "done"]
    ELSE RequestPage(CountPage(it), it.page + 1, n)

\* _submit_with_retry has not been called
NoSubmit ==
    [delay |-> <<>>, ticket_id |-> 0, attempt |-> 0, outcomes |-> <<>>, slept |-> <<>>,
     result |-> "", submissions |-> 0]

\* UpdateTracker.load
TrackerLoad(u) ==
    IF u.loaded THEN u
    ELSE [u EXCEPT !.ticket_ids = @ \cup u.file, !.loaded = TRUE]

\* UpdateTracker.contains
TrackerContains(u, ticket_id) == ticket_id \in TrackerLoad(u).ticket_ids

\* the mutant of MarkUpdated that does not mark the tracker as changed
MarkUpdatedNotDirty(u, ticket_id) ==
    [TrackerLoad(u) EXCEPT !.ticket_ids = @ \cup {ticket_id}]

\* UpdateTracker.mark_updated
MarkUpdated(u, ticket_id) ==
    IF ticket_id \in TrackerLoad(u).ticket_ids THEN TrackerLoad(u)
    ELSE [TrackerLoad(u) EXCEPT !.ticket_ids = @ \cup {ticket_id}, !.dirty = TRUE]

\* UpdateTracker.save
TrackerSave(u) ==
    IF ~u.dirty THEN u ELSE [u EXCEPT !.file = u.ticket_ids, !.dirty = FALSE]

\* the row is skipped because the tracker has its ticket
SkippedByTracker(u, row) ==
    /\ u.skip_tracker
    /\ ~u.dry_run
    /\ ~u.force_all
    /\ row.ticket_id \notin u.force_ticket_ids
    /\ TrackerContains(u, row.ticket_id)

\* the row reaches _submit_with_retry
Submitted(u, row) ==
    /\ row.manager_decision = "approve"
    /\ ~SkippedByTracker(u, row)
    /\ NormalizeValue(row.final_category) # NoneValue
    /\ NormalizeValue(row.final_category) # NormalizeValue(row.current_category)
    /\ ~u.dry_run

\* the mutant of CollectError that drops the error
CollectErrorDropped(u, row, status_code) == u

\* collected_errors.append(UpdateError(...)) of the except HTTPError branch
CollectError(u, row, status_code) ==
    [u EXCEPT !.errors = Append(@, [ticket_id |-> row.ticket_id,
                                    status_code |-> status_code])]

\* one iteration of the loop of update_ticket_categories; the fields
\* updated (successful submissions of an id, counted up to 2), client_calls
\* (counted up to 3), late_calls (the client was called for an id the
\* tracker had), tracker_skips and last_row (the row's ticket and the
\* client's last answer to it, "" when the client was not called) log what
\* the client and the tracker were asked
UpdateRow(u, row, outcome) ==
    LET result == SubmitWithRetry(outcome.calls, outcome.delay, 1)
        answer == outcome.calls[result.client_calls]
        unsent == [u EXCEPT !.last_row = [ticket_id |-> row.ticket_id, answer |-> ""]]
        logged == [u EXCEPT
                     !.client_calls = Min(@ + result.client_calls, 3),
                     !.late_calls = @ \/ row.ticket_id \in u.ticket_ids \cup u.file,
                     !.last_row = [ticket_id |-> row.ticket_id, answer |-> answer]]
        counted == [logged EXCEPT !.updated[row.ticket_id] = Min(@ + 1, 2),
                                  !.responses = Append(@, row.ticket_id)]
    IN IF row.manager_decision = "approve" /\ SkippedByTracker(u, row)
       THEN [unsent EXCEPT !.tracker_skips = TRUE]
       ELSE IF ~Submitted(u, row) THEN unsent
       ELSE IF result.response = <<>> THEN CollectError(logged, row, result.status_code)
       ELSE IF u.skip_tracker THEN TrackerSave(MarkUpdated(counted, row.ticket_id))
       ELSE counted

\* the options of a run: a tracker and no flag, or one of the flags
RunOptions ==
    {[skip_tracker |-> TRUE, dry_run |-> FALSE, force_all |-> FALSE, force_ticket_ids |-> {}],
     [skip_tracker |-> FALSE, dry_run |-> FALSE, force_all |-> FALSE, force_ticket_ids |-> {}],
     [skip_tracker |-> TRUE, dry_run |-> TRUE, force_all |-> FALSE, force_ticket_ids |-> {}],
     [skip_tracker |-> TRUE, dry_run |-> FALSE, force_all |-> TRUE, force_ticket_ids |-> {}],
     [skip_tracker |-> TRUE, dry_run |-> FALSE, force_all |-> FALSE, force_ticket_ids |-> {101}]}

PlainRun(options) ==
    /\ options.skip_tracker
    /\ ~options.dry_run
    /\ ~options.force_all
    /\ options.force_ticket_ids = {}

NoUpdate ==
    [file |-> {}, ticket_ids |-> {}, loaded |-> FALSE, dirty |-> FALSE,
     skip_tracker |-> FALSE, dry_run |-> FALSE, force_all |-> FALSE,
     force_ticket_ids |-> {}, processed |-> 0, runs |-> 0, plain |-> TRUE,
     updated |-> [id \in TicketIds |-> 0], client_calls |-> 0,
     late_calls |-> FALSE, tracker_skips |-> FALSE,
     responses |-> <<>>, errors |-> <<>>, last_row |-> [ticket_id |-> 0, answer |-> ""]]

(***************************************************************************)
(* State                                                                   *)
(***************************************************************************)
VARIABLES
    nodes,             \* TaxonomyModel.nodes_by_path (its keys)
    priority_map,      \* TaxonomyModel.priority_map
    prio_index,        \* enumerate index of the priority_order loop
    cfg_max,           \* the configured max_suggestions_per_ticket
    max_suggestions,   \* TicketAnalyzer.max_suggestions_per_ticket
    tickets,           \* ticket_list, the TicketRecords
    tfidf_scores,      \* _compute_tfidf_scores result: <<>> or <<score_maps>>
    index,             \* 1-based position of the ticket being classified
    pc,                \* position in build_taxonomy_model / suggest_categories
    match_map,         \* the ticket's candidate map
    ordered_matches,   \* ordered_matches of the ticket
    suggestions,       \* the returned mapping ticket id -> suggestion list
    calls,             \* how many times suggest_categories was called
    returned,          \* what the previous call was given and returned
    builder,           \* build_taxonomy_model: its arguments and its locals
    updater,           \* update_ticket_categories: tracker, options, call log
    submit,            \* _submit_with_retry: its locals and what it did
    iterator           \* iter_tickets / iter_requesters: locals and call log

vars ==
    <<nodes, priority_map, prio_index, cfg_max, max_suggestions, tickets,
      tfidf_scores, index, pc, match_map, ordered_matches, suggestions,
      calls, returned, builder, updater, submit, iterator>>

\* the analyzer and the builder
model_vars ==
    <<nodes, priority_map, prio_index, cfg_max, max_suggestions, tickets,
      tfidf_scores, index, match_map, ordered_matches, suggestions,
      calls, returned, builder>>

\* what the update workflow leaves alone
analysis_vars == <<model_vars, submit, iterator>>

EmptyMap == <<>>

\* a TicketRecord built from upstream data
Ticket(id, tokens, path) ==
    [id |-> id,
     tokens |-> tokens,
     category |-> IF Len(path) >= 1 THEN path[1] ELSE "",
     sub_category |-> IF Len(path) >= 2 THEN path[2] ELSE "",
     item_category |-> IF Len(path) >= 3 THEN path[3] ELSE "",
     final_category |-> "",
     final_sub_category |-> "",
     final_item_category |-> ""]

CurrentTicket == tickets[index]

(***************************************************************************)
(* Actions                                                                 *)
(***************************************************************************)
\* one iteration of the priority_order loop of build_taxonomy_model
AddPriorityEntry(entry) ==
    /\ pc = "config"
    /\ prio_index < MaxPriorityEntries
    /\ LET path == NormalisePriorityPath(entry)
       IN priority_map' = IF path = <<>> THEN priority_map
                          ELSE RecordPriority(priority_map, path, prio_index)
    /\ prio_index' = prio_index + 1
    /\ UNCHANGED <<iterator, submit, updater, builder, calls, returned, nodes, cfg_max, max_suggestions, tickets, tfidf_scores, index,
                   pc, match_map, ordered_matches, suggestions>>

\* the model is returned and TicketAnalyzer.__init__ runs
CreateAnalyzer ==
    /\ pc = "config"
    /\ max_suggestions' = Clamp(cfg_max)
    /\ pc' = "ready"
    /\ UNCHANGED <<iterator, submit, updater, builder, calls, returned, nodes, priority_map, prio_index, cfg_max, tickets, tfidf_scores,
                   index, match_map, ordered_matches, suggestions>>

\* suggest_categories up to the per-ticket loop
StartBatch ==
    /\ pc = "ready"
    /\ tfidf_scores' = ComputeTfidfScores(tickets, nodes)
    /\ suggestions' = EmptyMap
    /\ index' = 1
    /\ pc' = IF Len(tickets) = 0 THEN "done" ELSE "match"
    /\ UNCHANGED <<iterator, submit, updater, builder, calls, returned, nodes, priority_map, prio_index, cfg_max,
                   max_suggestions, tickets, match_map, ordered_matches>>

Stage(from, to, mm) ==
    /\ pc = from
    /\ match_map' = mm
    /\ pc' = to
    /\ UNCHANGED <<iterator, submit, updater, builder, calls, returned, nodes, priority_map, prio_index, cfg_max, max_suggestions,
                   tickets, tfidf_scores, index, ordered_matches, suggestions>>

\* the mutant of the keyword stage that also makes a candidate of the
\* target of every matched alias rule
MatchStepWithAliases ==
    LET matched == MatchTaxonomy(nodes, CurrentTicket.tokens)
        hits == AliasMatches(builder.alias_rules, CurrentTicket.tokens)
        targets == {hits[i].target : i \in DOMAIN hits} \cap nodes
    IN Stage("match", "proximity",
             [p \in DOMAIN matched \cup targets |->
                 IF p \in targets
                 THEN NewMatch(p, Confidence(1, Len(p)), <<"keywords">>, <<>>)
                 ELSE matched[p]])

MatchStep ==
    Stage("match", "proximity", MatchTaxonomy(nodes, CurrentTicket.tokens))

ProximityStep ==
    Stage("proximity", "fuzzy",
          ApplyProximityBoosts(match_map, nodes, CurrentTicket.tokens))

FuzzyStep ==
    Stage("fuzzy", "tfidf", ApplyFuzzyMatches(match_map, nodes, CurrentTicket.tokens))

TfidfStep ==
    Stage("tfidf", "negative",
          ApplyTfidfScores(match_map, nodes,
                           IF tfidf_scores # <<>> THEN tfidf_scores[1][index]
                           ELSE EmptyMap))

NegativeStep ==
    Stage("negative", "rank",
          ApplyNegativeKeywords(match_map, priority_map, CurrentTicket.tokens))

\* _sorted_matches, the primary selection and the fallback
RankStep ==
    /\ pc = "rank"
    /\ ordered_matches' = WithFallback(SortedMatches(match_map, priority_map), nodes)
    /\ pc' = "assemble"
    /\ UNCHANGED <<iterator, submit, updater, builder, calls, returned, nodes, priority_map, prio_index, cfg_max, max_suggestions,
                   tickets, tfidf_scores, index, match_map, suggestions>>

\* the suggestion list, the write-back of the top suggestion, the result entry
AssembleStep ==
    /\ pc = "assemble"
    /\ LET list == SuggestionList(ordered_matches, max_suggestions)
           id == CurrentTicket.id
           final == FinalFields(list, ordered_matches)
       IN /\ tickets' =
                IF HasPrimary(SortedMatches(match_map, priority_map), nodes)
                THEN [tickets EXCEPT
                        ![index].final_category = final[1],
                        ![index].final_sub_category = final[2],
                        ![index].final_item_category = final[3]]
                ELSE tickets
          /\ suggestions' = [i \in DOMAIN suggestions \cup {id} |->
                               IF i = id THEN list ELSE suggestions[i]]
    /\ index' = index + 1
    /\ pc' = IF index = Len(tickets) THEN "done" ELSE "match"
    /\ UNCHANGED <<iterator, submit, updater, builder, calls, returned, nodes, priority_map, prio_index, cfg_max, max_suggestions,
                   tfidf_scores, match_map, ordered_matches>>

Classify ==
    \/ StartBatch
    \/ MatchStep
    \/ ProximityStep
    \/ FuzzyStep
    \/ TfidfStep
    \/ NegativeStep
    \/ RankStep
    \/ AssembleStep

\* the ids of a batch, in the order of the batch
BatchOrder(batch) == [k \in DOMAIN batch |-> batch[k].id]

\* the final fields of the tickets of a batch, by id
FinalsOf(batch) ==
    [id \in Range(BatchOrder(batch)) |->
        LET t == batch[CHOOSE k \in DOMAIN batch : batch[k].id = id]
        IN <<t.final_category, t.final_sub_category, t.final_item_category>>]

\* the orders a caller may pass a two-ticket batch in
BatchPermutations(batch) ==
    IF Len(batch) = 2 THEN {batch, <<batch[2], batch[1]>>} ELSE {batch}

\* suggest_categories has returned and the caller calls it again, with the
\* same analyzer, on the ticket records as they are now, in some order
CallAgain(batch) ==
    /\ pc = "done"
    /\ calls < MaxCalls
    /\ returned' = [order |-> BatchOrder(tickets), result |-> suggestions,
                    finals |-> FinalsOf(tickets)]
    /\ tickets' = batch
    /\ calls' = calls + 1
    /\ pc' = "ready"
    /\ UNCHANGED <<iterator, submit, updater, builder, nodes, priority_map, prio_index, cfg_max,
                   max_suggestions, tfidf_scores, index, match_map,
                   ordered_matches, suggestions>>

\* suggest_categories has returned and the caller classifies the batch
\* again with an analyzer over the same taxonomy, built this time with
\* alias rules
CallWithAliases(alias_rules) ==
    /\ pc = "done"
    /\ calls < MaxCalls
    /\ returned' = [order |-> BatchOrder(tickets), result |-> suggestions,
                    finals |-> FinalsOf(tickets)]
    /\ builder' = [builder EXCEPT !.alias_rules = alias_rules]
    /\ calls' = calls + 1
    /\ pc' = "ready"
    /\ UNCHANGED <<iterator, submit, updater, nodes, priority_map, prio_index, cfg_max,
                   max_suggestions, tickets, tfidf_scores, index, match_map,
                   ordered_matches, suggestions>>

\* build_taxonomy_model up to the loop over the tree entries
StartBuild ==
    /\ pc = "build"
    /\ IF builder.config = <<>>
       THEN IF builder.metadata = <<>>
            THEN /\ builder' = [builder EXCEPT !.error = "taxonomy section missing"]
                 /\ pc' = "failed"
                 /\ UNCHANGED nodes
            ELSE /\ builder' = [builder EXCEPT
                                   !.calls = MetadataCalls(builder.metadata[1]),
                                   !.next = 1]
                 /\ pc' = "metadata"
                 /\ UNCHANGED nodes
       ELSE IF builder.config[1].tree = <<>> \/ builder.config[1].tree[1] = <<>>
            THEN /\ builder' = [builder EXCEPT !.error = "tree not a non-empty list"]
                 /\ pc' = "failed"
                 /\ UNCHANGED nodes
            ELSE /\ builder' = [builder EXCEPT !.next = 1]
                 /\ pc' = "tree"
                 /\ UNCHANGED nodes
    /\ UNCHANGED <<iterator, submit, updater, calls, returned, priority_map, prio_index, cfg_max,
                   max_suggestions, tickets, tfidf_scores, index, match_map,
                   ordered_matches, suggestions>>

\* one call of _build_node (without the calls for its children)
BuildNode ==
    /\ pc = "tree"
    /\ LET rows == builder.config[1].tree[1]
           i == builder.next
           error == BuildNodeError(rows, i, builder.nodes_by_path)
       IN IF error # ""
          THEN /\ builder' = [builder EXCEPT !.error = error]
               /\ pc' = "failed"
          ELSE /\ builder' = [LinkReturned(Register(builder, RowPath(rows, i)), rows, i)
                                EXCEPT !.next = IF i = Len(rows) THEN 1 ELSE i + 1]
               /\ pc' = IF i = Len(rows) THEN "aliases" ELSE "tree"
    /\ UNCHANGED <<iterator, submit, updater, calls, returned, nodes, priority_map, prio_index, cfg_max,
                   max_suggestions, tickets, tfidf_scores, index, match_map,
                   ordered_matches, suggestions>>

\* one call of _ensure_node by the loops of _build_model_from_metadata, or
\* their end, where the model is returned
EnsureStep ==
    /\ pc = "metadata"
    /\ LET k == builder.next
       IN IF k > Len(builder.calls)
          THEN /\ nodes' = builder.nodes_by_path
               /\ pc' = "built"
               /\ UNCHANGED builder
          ELSE /\ builder' = [EnsureNode(builder, builder.calls[k].label,
                                         builder.calls[k].parent_path)
                                EXCEPT !.next = k + 1]
               /\ pc' = "metadata"
               /\ UNCHANGED nodes
    /\ UNCHANGED <<iterator, submit, updater, calls, returned, priority_map, prio_index, cfg_max,
                   max_suggestions, tickets, tfidf_scores, index, match_map,
                   ordered_matches, suggestions>>

\* one iteration of the loop of _parse_alias_rules, or its end, after which
\* the priority_order loop starts over the nodes that were built
ParseAliasRule ==
    /\ pc = "aliases"
    /\ LET entries == builder.config[1].aliases
           k == builder.next
       IN IF k > Len(entries)
          THEN /\ nodes' = builder.nodes_by_path
               /\ pc' = "config"
               /\ UNCHANGED builder
          ELSE IF entries[k].alias = ""
          THEN /\ builder' = [builder EXCEPT !.error = "alias without name"]
               /\ pc' = "failed"
               /\ UNCHANGED nodes
          ELSE IF entries[k].target = <<>>
          THEN /\ builder' = [builder EXCEPT !.error = "alias without target"]
               /\ pc' = "failed"
               /\ UNCHANGED nodes
          ELSE /\ builder' = [builder EXCEPT
                                !.warnings =
                                    IF entries[k].target \in builder.nodes_by_path
                                    THEN @ ELSE Append(@, "alias points to unknown path"),
                                !.alias_rules = Append(@, entries[k]),
                                !.next = k + 1]
               /\ pc' = "aliases"
               /\ UNCHANGED nodes
    /\ UNCHANGED <<iterator, submit, updater, calls, returned, priority_map, prio_index, cfg_max,
                   max_suggestions, tickets, tfidf_scores, index, match_map,
                   ordered_matches, suggestions>>

\* the TaxonomyModel is made and returned
ReturnModel ==
    /\ pc = "config"
    /\ pc' = "built"
    /\ UNCHANGED <<iterator, submit, updater, builder, calls, returned, nodes, priority_map, prio_index,
                   cfg_max, max_suggestions, tickets, tfidf_scores, index,
                   match_map, ordered_matches, suggestions>>

Build == StartBuild \/ BuildNode \/ EnsureStep \/ ParseAliasRule \/ ReturnModel

\* the workflow makes a new UpdateTracker on the tracker file and calls
\* update_ticket_categories, which loads it
StartRun ==
    /\ pc = "idle"
    /\ updater.runs < MaxRuns
    /\ \E options \in RunOptions :
          updater' =
              LET fresh == [updater EXCEPT
                              !.ticket_ids = {}, !.loaded = FALSE, !.dirty = FALSE,
                              !.skip_tracker = options.skip_tracker,
                              !.dry_run = options.dry_run,
                              !.force_all = options.force_all,
                              !.force_ticket_ids = options.force_ticket_ids,
                              !.processed = 0,
                              !.responses = <<>>,
                              !.errors = <<>>,
                              !.last_row = [ticket_id |-> 0, answer |-> ""],
                              !.runs = @ + 1,
                              !.plain = @ /\ PlainRun(options)]
              IN IF options.skip_tracker THEN TrackerLoad(fresh) ELSE fresh
    /\ pc' = "rows"
    /\ UNCHANGED analysis_vars

\* the loop takes the next row
ProcessRow ==
    /\ pc = "rows"
    /\ updater.processed < MaxRows
    /\ \E row \in ReviewRows, outcome \in ClientOutcomes :
          updater' = [UpdateRow(updater, row, outcome) EXCEPT !.processed = @ + 1]
    /\ pc' = "rows"
    /\ UNCHANGED analysis_vars

\* the rows are over: the outer finally saves the tracker
FinishRun ==
    /\ pc = "rows"
    /\ updater' = IF updater.skip_tracker /\ ~updater.dry_run
                  THEN TrackerSave(updater) ELSE updater
    /\ pc' = "idle"
    /\ UNCHANGED analysis_vars

\* the process is killed between two rows: nothing more is written
KillRun ==
    /\ pc = "rows"
    /\ pc' = "idle"
    /\ UNCHANGED updater
    /\ UNCHANGED analysis_vars

Update == StartRun \/ ProcessRow \/ FinishRun \/ KillRun

\* _submit_with_retry is called for a ticket: attempt = 0
StartSubmit ==
    /\ pc = "waiting"
    /\ submit.submissions < MaxSubmissions
    /\ \E ticket_id \in TicketIds :
          submit' = [submit EXCEPT
                       !.ticket_id = ticket_id, !.attempt = 0, !.outcomes = <<>>,
                       !.slept = <<>>, !.result = "", !.submissions = @ + 1]
    /\ pc' = "attempt"
    /\ UNCHANGED <<model_vars, updater, iterator>>

\* one iteration of the while loop: the client is called and answers; the
\* loop returns, raises, or sleeps for the delay and continues
Attempt ==
    /\ pc = "attempt"
    /\ \E outcome \in HttpOutcomes :
          LET attempt == submit.attempt + 1
              decision == RetryDecision(outcome, submit.delay, attempt)
          IN /\ submit' = [submit EXCEPT
                             !.attempt = attempt,
                             !.outcomes = Append(@, outcome),
                             !.slept = IF decision = "sleep"
                                       THEN Append(@, RateLimitDelay(submit.delay))
                                       ELSE @,
                             !.result = IF decision = "sleep" THEN "" ELSE decision]
             /\ pc' = IF decision = "sleep" THEN "attempt" ELSE "waiting"
    /\ UNCHANGED <<model_vars, updater, iterator>>

Retry == StartSubmit \/ Attempt

\* the consumer asks the generator for the next item
NextItem ==
    /\ pc = "iterate"
    /\ iterator.status # "done"
    /\ \E n \in PageSizes(iterator) : iterator' = Resume(iterator, n)
    /\ pc' = "iterate"
    /\ UNCHANGED <<model_vars, updater, submit>>

Configure ==
    \/ \E entry \in PriorityEntries : AddPriorityEntry(entry)
    \/ CreateAnalyzer

Next == Configure \/ Classify

(***************************************************************************)
(* Initial states                                                          *)
(***************************************************************************)
InitRun ==
    /\ updater = NoUpdate
    /\ submit = NoSubmit
    /\ iterator = NoIterator
    /\ builder = NoBuild
    /\ calls = 1
    /\ returned = [order |-> <<>>, result |-> EmptyMap, finals |-> EmptyMap]
    /\ tfidf_scores = <<>>
    /\ index = 0
    /\ match_map = EmptyMap
    /\ ordered_matches = <<>>
    /\ suggestions = EmptyMap

\* the ticket texts classified under the priority tables being built
RankTexts ==
    {<<"vpn", "outlook">>, <<"not", "vpn", "outlook">>, <<"citrix", "anyware">>,
     <<"citrix", "cato", "outlook">>, <<"anyware", "remote">>}

\* a taxonomy whose priority table is being built, one ticket, the default
\* suggestion limit
Init ==
    /\ nodes = FullTree
    /\ priority_map = EmptyMap
    /\ prio_index = 0
    /\ cfg_max = 3
    /\ max_suggestions = 0
    /\ \E text \in RankTexts : tickets = <<Ticket(101, text, <<>>)>>
    /\ pc = "config"
    /\ InitRun

Spec == Init /\ [][Next]_vars

\* the built models and suggestion limits the signal stages are run with:
\* nodes, the priority_order that was listed, max_suggestions_per_ticket
MaxConfigured == 3

AnalyzerConfigs ==
    {<<tree, <<>>, 3>> : tree \in Trees}
      \cup {<<FullTree, order, cfg>> :
              order \in {<<>>, <<VpnPath>>, <<OutlookPath, CitrixPath>>},
              cfg \in 0..MaxConfigured}

\* priority_map of a priority_order without blank or repeated entries
PriorityMapOf(order) ==
    [p \in Range(order) |-> (CHOOSE i \in DOMAIN order : order[i] = p) - 1]

\* some longer ticket texts, with several candidates at once
LongTexts ==
    {<<"not", "vpn", "cato">>, <<"not", "vpn", "remote">>,
     <<"vpn", "outlook", "remote">>, <<"citrix", "anyware", "outlook">>,
     <<"citrx", "cato", "cannot", "outlook">>}

\* an analyzer over a built model, one unlabelled ticket of any text
InitSignals ==
    /\ \E c \in AnalyzerConfigs :
          /\ nodes = c[1]
          /\ priority_map = PriorityMapOf(c[2])
          /\ prio_index = Len(c[2])
          /\ cfg_max = c[3]
          /\ max_suggestions = Clamp(c[3])
    /\ \E text \in SeqsUpTo(Vocabulary, MaxTokens) \cup LongTexts :
          tickets = <<Ticket(101, text, <<>>)>>
    /\ pc = "ready"
    /\ InitRun

SpecSignals == InitSignals /\ [][Classify]_vars

\* the tokens of the tickets of a two-ticket batch
BatchVocabulary == {"mail", "bounce", "cato"}

\* the existing labels of the second ticket of a batch: none, or a leaf
BatchLabels == {<<>>, OutlookPath, VpnPath}

\* an analyzer with the defaults over the full tree, a batch of an
\* unlabelled ticket and a second ticket that may carry labels
InitBatch ==
    /\ nodes = FullTree
    /\ priority_map = EmptyMap
    /\ prio_index = 0
    /\ cfg_max = 3
    /\ max_suggestions = Clamp(3)
    /\ \E t1 \in SeqsUpTo(BatchVocabulary, MaxBatchTokens),
          t2 \in SeqsUpTo(BatchVocabulary, MaxBatchTokens),
          lab \in BatchLabels :
          tickets = <<Ticket(101, t1, <<>>), Ticket(102, t2, lab)>>
    /\ pc = "ready"
    /\ InitRun

SpecBatch == InitBatch /\ [][Classify]_vars

\* the texts and existing labels of the tickets of a batch classified twice
RerunTexts ==
    {<<>>, <<"mail">>, <<"citrx", "cato">>, <<"vpn", "outlook">>,
     <<"not", "vpn", "mail">>, <<"mail", "bounce">>}

\* an analyzer with the defaults over the full tree and a batch of two
\* tickets, each of which may carry labels
InitRerun ==
    /\ nodes = FullTree
    /\ priority_map = EmptyMap
    /\ prio_index = 0
    /\ cfg_max = 3
    /\ max_suggestions = Clamp(3)
    /\ \E t1 \in RerunTexts, t2 \in RerunTexts,
          lab1 \in BatchLabels, lab2 \in BatchLabels :
          tickets = <<Ticket(101, t1, lab1), Ticket(102, t2, lab2)>>
    /\ pc = "ready"
    /\ InitRun

\* build_taxonomy_model is called with a configuration and metadata; no
\* model exists yet
InitBuild ==
    /\ \E config \in BuildConfigs, metadata \in Metadata :
          builder = [NoBuild EXCEPT !.config = config, !.metadata = metadata]
    /\ updater = NoUpdate
    /\ submit = NoSubmit
    /\ iterator = NoIterator
    /\ nodes = {}
    /\ priority_map = EmptyMap
    /\ prio_index = 0
    /\ cfg_max = 3
    /\ max_suggestions = 0
    /\ tickets = <<>>
    /\ pc = "build"
    /\ calls = 1
    /\ returned = [order |-> <<>>, result |-> EmptyMap, finals |-> EmptyMap]
    /\ tfidf_scores = <<>>
    /\ index = 0
    /\ match_map = EmptyMap
    /\ ordered_matches = <<>>
    /\ suggestions = EmptyMap

SpecBuild == InitBuild /\ [][Build]_vars

\* build_taxonomy_model is called with a configured tree, or without
\* configuration and with field metadata
InitStructure ==
    /\ \/ \E rows \in ConfiguredTrees :
             builder = [NoBuild EXCEPT !.config = <<[tree |-> <<rows>>, aliases |-> <<>>]>>]
       \/ \E c \in MetaCategories, s \in MetaSubcategories, i \in MetaItems :
             builder = [NoBuild EXCEPT !.metadata = <<AvailableTaxonomy(c, s, i)>>]
    /\ updater = NoUpdate
    /\ submit = NoSubmit
    /\ iterator = NoIterator
    /\ nodes = {}
    /\ priority_map = EmptyMap
    /\ prio_index = 0
    /\ cfg_max = 3
    /\ max_suggestions = 0
    /\ tickets = <<>>
    /\ pc = "build"
    /\ calls = 1
    /\ returned = [order |-> <<>>, result |-> EmptyMap, finals |-> EmptyMap]
    /\ tfidf_scores = <<>>
    /\ index = 0
    /\ match_map = EmptyMap
    /\ ordered_matches = <<>>
    /\ suggestions = EmptyMap

SpecStructure == InitStructure /\ [][Build]_vars

\* token, k times
RECURSIVE Repeat(_, _)
Repeat(token, k) == IF k = 0 THEN <<>> ELSE <<token>> \o Repeat(token, k - 1)

\* texts that misspell citrix any number of times and then name a product
RepeatedTexts ==
    {Repeat("citrx", k) \o <<w>> : k \in 0..MaxRepeats, w \in {"vpn", "anyware"}}

\* an analyzer over the full tree, with one or three suggestions per ticket,
\* and one ticket that misspells citrix, unlabelled or already labelled
\* Citrix (Legacy)
InitFuzzy ==
    /\ nodes = FullTree
    /\ \E order \in {<<>>, <<VpnPath>>} :
          /\ priority_map = PriorityMapOf(order)
          /\ prio_index = Len(order)
    /\ \E cfg \in {1, 3} :
          /\ cfg_max = cfg
          /\ max_suggestions = Clamp(cfg)
    /\ \E text \in RepeatedTexts, lab \in {<<>>, CitrixPath} :
          tickets = <<Ticket(101, text, lab)>>
    /\ pc = "ready"
    /\ InitRun

SpecFuzzy == InitFuzzy /\ [][Classify]_vars

\* the tokens of the texts the proximity rules are tried on
ProximityVocabulary == {"teams", "camera", "video", "vpn", "cannot"}

\* two terms of a rule with k other tokens between them, in both orders,
\* and texts where the terms occur together more than once
GapTexts ==
    {<<pair[1]>> \o Repeat("room", k) \o <<pair[2]>> :
        pair \in {<<"teams", "camera">>, <<"camera", "teams">>,
                  <<"vpn", "cannot">>, <<"cannot", "vpn">>},
        k \in 0..MaxGap}
      \cup {<<"teams", "camera", "teams", "camera">>,
            <<"vpn", "cannot", "cannot", "vpn">>,
            <<"teams", "vpn", "cannot", "vpn", "camera">>}

\* an analyzer with the defaults or with a limit of one suggestion, over
\* the full tree (where the teams/camera rule has no target) or over a tree
\* with that target, and one unlabelled ticket
InitProximity ==
    /\ nodes \in {FullTree, VideoTree, DeepVideoTree}
    /\ priority_map = EmptyMap
    /\ prio_index = 0
    /\ cfg_max \in {1, 3}
    /\ max_suggestions = Clamp(cfg_max)
    /\ \E text \in SeqsUpTo(ProximityVocabulary, MaxTokens) \cup GapTexts :
          tickets = <<Ticket(101, text, <<>>)>>
    /\ pc = "ready"
    /\ InitRun

SpecProximity == InitProximity /\ [][Classify]_vars

\* texts that hit one, two or three keywords of nodes at depth 1, 2 and 3,
\* each with the tree it is classified against
KeywordCases ==
    {<<FullTree, text>> :
        text \in {<<"remote">>, <<"access", "remote">>, <<"remote", "access">>,
                  <<"vpn">>, <<"cato", "vpn">>, <<"vpn", "cato">>,
                  <<"outlook">>, <<"outlook", "office">>, <<"ms", "office", "outlook">>,
                  <<"remote", "vpn", "outlook">>, <<"remote", "access", "vpn">>,
                  <<"vpn", "cato", "outlook">>, <<"office", "outlook", "vpn">>}}
      \cup {<<tree, text>> :
               tree \in {VideoTree, DeepVideoTree},
               text \in {<<"hardware">>, <<"video">>, <<"audio", "video">>,
                         <<"audio", "video", "devices">>, <<"hardware", "video">>,
                         <<"webcams">>, <<"webcam", "webcams">>,
                         <<"video", "webcam">>}}

\* an analyzer with the defaults, one ticket of the keyword cases
InitKeywords ==
    /\ priority_map = EmptyMap
    /\ prio_index = 0
    /\ cfg_max \in {1, 3}
    /\ max_suggestions = Clamp(cfg_max)
    /\ \E c \in KeywordCases :
          /\ nodes = c[1]
          /\ tickets = <<Ticket(101, c[2], <<>>)>>
    /\ pc = "ready"
    /\ InitRun

SpecKeywords == InitKeywords /\ [][Classify]_vars

\* texts whose tokens score below 80, 80, 89 and 100 against the seeds of a
\* leaf or of a node with children, with and without a keyword hit on the
\* same node, each with the tree it is classified against
FuzzyCases ==
    {<<FullTree, text>> :
        text \in {<<"room">>, <<"citrx">>, <<"xxcitr">>, <<"citrix">>,
                  <<"citrix", "legacy">>, <<"legacy", "citrx">>,
                  <<"legacy", "xxcitr">>, <<"cat">>, <<"vpn", "cat">>,
                  <<"vpn", "cato", "cat">>, <<"remote", "cat">>,
                  <<"vpn", "cannot", "cat">>}}
      \cup {<<CatoTree, text>> :
               text \in {<<"room">>, <<"cat">>, <<"vpn", "cat">>, <<"cato">>,
                         <<"citrx">>, <<"xxcitr", "cat">>, <<"legacy", "cat">>}}

\* an analyzer with the defaults, one ticket of the fuzzy cases
InitFuzzyCases ==
    /\ priority_map = EmptyMap
    /\ prio_index = 0
    /\ cfg_max \in {1, 3}
    /\ max_suggestions = Clamp(cfg_max)
    /\ \E c \in FuzzyCases :
          /\ nodes = c[1]
          /\ tickets = <<Ticket(101, c[2], <<>>)>>
    /\ pc = "ready"
    /\ InitRun

SpecFuzzyCases == InitFuzzyCases /\ [][Classify]_vars

\* similarities, in thousandths, around tfidf_leaf_threshold and up to 1.0
StageScores == {1, TfidfLeafThreshold - 1, TfidfLeafThreshold, TfidfLeafThreshold + 1, 1000}

\* the paths _apply_tfidf_scores is handed scores for: leaves, and a node
\* with children
ScoredPaths == {VpnPath, CitrixPath, OutlookPath, RemoteAccess}

\* the score maps of one ticket: up to two scored paths
StageScoreMaps ==
    {EmptyMap}
      \cup {[p \in {a, b} |-> IF p = a THEN sa ELSE sb] :
              a \in ScoredPaths, b \in ScoredPaths, sa \in StageScores, sb \in StageScores}

\* _apply_tfidf_scores is about to run on the candidates the earlier stages
\* left for a ticket, with a score map of the ticket
InitTfidfStage ==
    /\ nodes = FullTree
    /\ priority_map = EmptyMap
    /\ prio_index = 0
    /\ cfg_max = 3
    /\ max_suggestions = Clamp(cfg_max)
    /\ \E text \in {<<"room">>, <<"vpn">>, <<"remote", "citrx">>} :
          tickets = <<Ticket(101, text, <<>>)>>
    /\ \E score_map \in StageScoreMaps : tfidf_scores = <<<<score_map>>>>
    /\ index = 1
    /\ match_map =
          ApplyFuzzyMatches(
              ApplyProximityBoosts(MatchTaxonomy(nodes, tickets[1].tokens),
                                   nodes, tickets[1].tokens),
              nodes, tickets[1].tokens)
    /\ pc = "tfidf"
    /\ updater = NoUpdate
    /\ submit = NoSubmit
    /\ iterator = NoIterator
    /\ builder = NoBuild
    /\ calls = 1
    /\ returned = [order |-> <<>>, result |-> EmptyMap, finals |-> EmptyMap]
    /\ ordered_matches = <<>>
    /\ suggestions = EmptyMap

SpecTfidfStage == InitTfidfStage /\ [][TfidfStep]_vars

\* no run yet; the tracker file may hold ids of earlier updates
InitUpdate ==
    /\ \E file \in SUBSET TicketIds : updater = [NoUpdate EXCEPT !.file = file]
    /\ submit = NoSubmit
    /\ iterator = NoIterator
    /\ builder = NoBuild
    /\ nodes = FullTree
    /\ priority_map = EmptyMap
    /\ prio_index = 0
    /\ cfg_max = 3
    /\ max_suggestions = 0
    /\ tickets = <<>>
    /\ pc = "idle"
    /\ calls = 1
    /\ returned = [order |-> <<>>, result |-> EmptyMap, finals |-> EmptyMap]
    /\ tfidf_scores = <<>>
    /\ index = 0
    /\ match_map = EmptyMap
    /\ ordered_matches = <<>>
    /\ suggestions = EmptyMap

SpecUpdate == InitUpdate /\ [][Update]_vars

\* a TicketUpdater on a client with some inter-request delay
InitRetry ==
    /\ \E delay \in ClientDelays : submit = [NoSubmit EXCEPT !.delay = delay]
    /\ iterator = NoIterator
    /\ updater = NoUpdate
    /\ builder = NoBuild
    /\ nodes = FullTree
    /\ priority_map = EmptyMap
    /\ prio_index = 0
    /\ cfg_max = 3
    /\ max_suggestions = 0
    /\ tickets = <<>>
    /\ pc = "waiting"
    /\ calls = 1
    /\ returned = [order |-> <<>>, result |-> EmptyMap, finals |-> EmptyMap]
    /\ tfidf_scores = <<>>
    /\ index = 0
    /\ match_map = EmptyMap
    /\ ordered_matches = <<>>
    /\ suggestions = EmptyMap

SpecRetry == InitRetry /\ [][Retry]_vars

\* a client and a generator made by iter_tickets or iter_requesters, with
\* or without a progress callback
InitIterate ==
    /\ \E per_page \in ConfiguredPerPage, endpoint \in Endpoints,
          with_callback \in BOOLEAN :
          iterator = NewIterator(per_page, endpoint, with_callback)
    /\ submit = NoSubmit
    /\ updater = NoUpdate
    /\ builder = NoBuild
    /\ nodes = FullTree
    /\ priority_map = EmptyMap
    /\ prio_index = 0
    /\ cfg_max = 3
    /\ max_suggestions = 0
    /\ tickets = <<>>
    /\ pc = "iterate"
    /\ calls = 1
    /\ returned = [order |-> <<>>, result |-> EmptyMap, finals |-> EmptyMap]
    /\ tfidf_scores = <<>>
    /\ index = 0
    /\ match_map = EmptyMap
    /\ ordered_matches = <<>>
    /\ suggestions = EmptyMap

SpecIterate == InitIterate /\ [][NextItem]_vars

NextRerun == Classify \/ \E batch \in BatchPermutations(tickets) : CallAgain(batch)

SpecRerun == InitRerun /\ [][NextRerun]_vars

\* the alias rules of a taxonomy (node aliases and extra alias entries are
\* the same AliasRule records): aliases that are words of the tickets or
\* not, with targets in the tree or not
AliasRuleLists ==
    {<<[alias |-> "vpn", target |-> OutlookPath]>>,
     <<[alias |-> "mail", target |-> VpnPath]>>,
     <<[alias |-> "mail", target |-> <<"Z">>]>>,
     <<[alias |-> "citrix", target |-> GeneralIT]>>,
     <<[alias |-> "vpn", target |-> CitrixPath], [alias |-> "bounce", target |-> AnywarePath]>>}

\* an analyzer with the defaults over the full tree, built without alias
\* rules, and a batch of an unlabelled ticket and a ticket that may carry
\* labels
InitAlias ==
    /\ nodes = FullTree
    /\ priority_map = EmptyMap
    /\ prio_index = 0
    /\ cfg_max \in {1, 3}
    /\ max_suggestions = Clamp(cfg_max)
    /\ \E t1 \in {<<>>, <<"vpn">>, <<"mail">>, <<"vpn", "mail">>, <<"bounce", "mail">>},
          t2 \in {<<"mail">>, <<"vpn", "bounce">>},
          lab \in BatchLabels :
          tickets = <<Ticket(101, t1, <<>>), Ticket(102, t2, lab)>>
    /\ pc = "ready"
    /\ InitRun

NextAlias == Classify \/ \E rules \in AliasRuleLists : CallWithAliases(rules)

SpecAlias == InitAlias /\ [][NextAlias]_vars

(***************************************************************************)
(* Properties                                                              *)
(***************************************************************************)
\* a ticket's suggestion list has just been returned: it is tickets[index-1],
\* and match_map and ordered_matches are still that ticket's
Returned == pc \in {"match", "done"} /\ index >= 2

LastTicket == tickets[index - 1]

LastList == suggestions[LastTicket.id]

SuggestedPath(s) ==
    SelectSeq(<<s.category, s.sub_category, s.item_category>>,
              LAMBDA x : x # NoneValue)

WrittenPath(t) ==
    SelectSeq(<<t.final_category, t.final_sub_category, t.final_item_category>>,
              LAMBDA x : x # "")

IsDemoted(m) == m.priority_override # <<>>

\* the priority_rank of the documented sort key
DocumentedRank(m) ==
    IF IsDemoted(m) THEN m.priority_override[1]
    ELSE IF m.path \in DOMAIN priority_map THEN priority_map[m.path]
    ELSE Cardinality(DOMAIN priority_map) + 1

\* (priority_rank, -depth, -confidence, path) of a is at most that of b
DocumentedKeyLeq(a, b) ==
    \/ DocumentedRank(a) < DocumentedRank(b)
    \/ /\ DocumentedRank(a) = DocumentedRank(b)
       /\ \/ Len(a.path) > Len(b.path)
          \/ /\ Len(a.path) = Len(b.path)
             /\ \/ a.confidence > b.confidence
                \/ /\ a.confidence = b.confidence
                   /\ (a.path = b.path \/ PathLess(a.path, b.path))

\* C1: the suggestion list returned for a ticket is made of its candidates
\* in non-decreasing order of (priority_rank, -depth, -confidence, path),
\* priority_rank being the priority_override of a demoted candidate, else the
\* path's rank in the priority map, else the size of the priority map plus 1.
C1_SuggestionsInKeyOrder ==
    Returned =>
        /\ Len(LastList) <= Len(ordered_matches)
        /\ \A i \in DOMAIN LastList :
              /\ SuggestedPath(LastList[i]) = ordered_matches[i].path
              /\ LastList[i].confidence = ordered_matches[i].confidence
        /\ \A i \in DOMAIN LastList : \A j \in DOMAIN LastList :
              i < j => DocumentedKeyLeq(ordered_matches[i], ordered_matches[j])

\* a list of three was returned under a priority table, its last entry a
\* demoted candidate
C1_Witness ==
    /\ Returned
    /\ Len(LastList) = 3
    /\ priority_map # EmptyMap
    /\ IsDemoted(ordered_matches[3])
    /\ ~IsDemoted(ordered_matches[1])

\* C2 as stated: every returned suggestion list has at most the configured
\* max_suggestions_per_ticket entries, for every configured value.
C2_AtMostConfigured ==
    \A id \in DOMAIN suggestions : Len(suggestions[id]) <= cfg_max

\* C2, amended: every returned suggestion list has at most
\* max(1, configured max_suggestions_per_ticket) entries.
C2_AtMostConfiguredOrOne ==
    \A id \in DOMAIN suggestions :
        Len(suggestions[id]) <= (IF cfg_max < 1 THEN 1 ELSE cfg_max)

\* more candidates than the configured maximum, and the list was cut to it
C2_Witness ==
    /\ Returned
    /\ cfg_max >= 1
    /\ Len(ordered_matches) > cfg_max
    /\ Len(LastList) = cfg_max

\* C3 as stated: of two candidates of a ticket that were not demoted, one with
\* its path in the configured priority_order and one without, the listed one
\* ranks before the unlisted one, for every priority_order list, blank and
\* repeated entries included.
C3_ListedBeforeUnlisted ==
    \A i \in DOMAIN ordered_matches : \A j \in DOMAIN ordered_matches :
        ( /\ ~IsDemoted(ordered_matches[i])
          /\ ~IsDemoted(ordered_matches[j])
          /\ ordered_matches[i].path \in DOMAIN priority_map
          /\ ordered_matches[j].path \notin DOMAIN priority_map ) => i < j

ConfidenceInRange(c) == c \in 5..95

\* C4: every confidence, counted in hundredths, is a whole number of
\* hundredths from 5 to 95: of each candidate after each signal stage
\* (keyword, proximity, fuzzy, TF-IDF, demotion), of the fallback candidate,
\* and of every returned suggestion.
C4_ConfidenceBounded ==
    /\ \A p \in DOMAIN match_map : ConfidenceInRange(match_map[p].confidence)
    /\ \A i \in DOMAIN ordered_matches :
          ConfidenceInRange(ordered_matches[i].confidence)
    /\ \A id \in DOMAIN suggestions : \A i \in DOMAIN suggestions[id] :
          ConfidenceInRange(suggestions[id][i].confidence)

\* after the demotion stage, a candidate that the keyword stage found, that
\* two more stages raised to the cap, and that a guard then demoted
C4_Witness ==
    /\ pc = "rank"
    /\ \E p \in DOMAIN match_map :
          /\ IsDemoted(match_map[p])
          /\ Len(match_map[p].rationale) >= 4
          /\ match_map[p].confidence = 50

NoCandidate == Returned /\ match_map = EmptyMap

\* C5 as stated: when no signal produces a candidate and the taxonomy holds
\* General IT > Questions, the only suggestion is that path with confidence
\* 0.6.
C5_FallbackAtSixty ==
    (NoCandidate /\ Questions \in nodes) =>
        /\ Len(LastList) = 1
        /\ SuggestedPath(LastList[1]) = Questions
        /\ LastList[1].confidence = 60

\* C5, amended: when no signal produces a candidate and the taxonomy holds
\* General IT > Questions, the only suggestion is that path with confidence
\* 0.55.
C5_FallbackAtFiftyFive ==
    (NoCandidate /\ Questions \in nodes) =>
        /\ Len(LastList) = 1
        /\ SuggestedPath(LastList[1]) = Questions
        /\ LastList[1].confidence = 55

\* no candidate, the node exists, the fallback was suggested and written
C5_Witness ==
    /\ NoCandidate
    /\ Questions \in nodes
    /\ Len(LastTicket.tokens) > 0
    /\ Len(LastList) = 1
    /\ WrittenPath(LastTicket) = Questions

\* C6: whenever a ticket's returned suggestion list is non-empty, the
\* ticket's final_category, final_sub_category and final_item_category are
\* the category, sub-category and item of the list's first suggestion, a
\* level absent from the path written as the empty string.
C6_FinalFieldsAreFirstSuggestion ==
    \A k \in DOMAIN tickets :
        (tickets[k].id \in DOMAIN suggestions /\ Len(suggestions[tickets[k].id]) > 0) =>
            LET first == suggestions[tickets[k].id][1]
                written(v) == IF v = NoneValue THEN "" ELSE v
            IN /\ tickets[k].final_category = written(first.category)
               /\ tickets[k].final_sub_category = written(first.sub_category)
               /\ tickets[k].final_item_category = written(first.item_category)

\* a list whose first suggestion has no item, though a candidate with an
\* item exists, and the item written is the empty string
C6_Witness ==
    /\ Returned
    /\ Len(LastList) >= 2
    /\ LastList[1].item_category = NoneValue
    /\ LastList[2].item_category # NoneValue
    /\ LastTicket.final_sub_category = LastList[1].sub_category
    /\ LastTicket.final_item_category = ""

\* C7 as stated: the path written back onto a ticket is the primary
\* selection, the first candidate at depth 3 in the sorted list, else the
\* first at depth 2, else the first at depth 1; so a ticket with a depth-3
\* candidate gets a written path of depth 3.
C7_WrittenIsPrimary ==
    Returned =>
        /\ PrimaryOf(ordered_matches) # <<>> =>
              WrittenPath(LastTicket) = PrimaryOf(ordered_matches)[1].path
        /\ (\E p \in DOMAIN match_map : Len(p) = 3) =>
              Len(WrittenPath(LastTicket)) = 3

PositionOf(path) == CHOOSE i \in DOMAIN ordered_matches : ordered_matches[i].path = path

\* C8 as stated: in a ticket's ranked list every demoted candidate comes
\* after every candidate that was not demoted, whatever the priority order;
\* and with the tokens citrix and anyware in the text and both candidates
\* there, Anyware/RDP ranks above Citrix (Legacy), whose rationale has the
\* demotion note.
C8_DemotedRankLast ==
    /\ \A i \in DOMAIN ordered_matches : \A j \in DOMAIN ordered_matches :
          (IsDemoted(ordered_matches[i]) /\ ~IsDemoted(ordered_matches[j])) => j < i
    /\ ( /\ pc = "assemble"
         /\ {"citrix", "anyware"} \subseteq TokenSet(CurrentTicket.tokens)
         /\ {CitrixPath, AnywarePath} \subseteq DOMAIN match_map ) =>
            /\ PositionOf(AnywarePath) < PositionOf(CitrixPath)
            /\ CitrixNote \in Range(match_map[CitrixPath].rationale)

\* the tokens not, vpn follow each other in the text
SaysNotVpn(tokens) ==
    \E i \in 1..(Len(tokens) - 1) : tokens[i] = "not" /\ tokens[i + 1] = "vpn"

Guarded == pc \in {"rank", "assemble"}

\* C9 as stated: when the text contains the phrase 'not vpn', every
\* candidate whose path has a label containing 'vpn' ends with a confidence
\* strictly below 0.5.
C9_VpnBelowHalf ==
    (Guarded /\ SaysNotVpn(CurrentTicket.tokens)) =>
        \A p \in DOMAIN match_map :
            (\E i \in DOMAIN p : LabelContains(p[i], "vpn")) =>
                match_map[p].confidence < 50

\* C9, amended: when the text contains the phrase 'not vpn', every candidate
\* whose path has a label containing 'vpn' ends with a confidence of at most
\* 0.5.
C9_VpnAtMostHalf ==
    (Guarded /\ SaysNotVpn(CurrentTicket.tokens)) =>
        \A p \in DOMAIN match_map :
            (\E i \in DOMAIN p : LabelContains(p[i], "vpn")) =>
                match_map[p].confidence <= 50

\* 'not vpn' in the text and a VPN candidate the guard has demoted
C9_Witness ==
    /\ Guarded
    /\ SaysNotVpn(CurrentTicket.tokens)
    /\ VpnPath \in DOMAIN match_map
    /\ VpnNote \in Range(match_map[VpnPath].rationale)
    /\ match_map[VpnPath].confidence < 50

\* the keyword, proximity and fuzzy stages find nothing in the tokens
NoDirectSignal(tokens) ==
    ApplyFuzzyMatches(
        ApplyProximityBoosts(MatchTaxonomy(nodes, tokens), nodes, tokens),
        nodes, tokens) = EmptyMap

\* the batch of the claim: the first ticket unlabelled and without a direct
\* signal, the second labelled with the leaf, the two sharing a token; the
\* first ticket's result is in
TfidfOnly(leaf) ==
    /\ index >= 2
    /\ Len(tickets) = 2
    /\ LabelledPaths(tickets[1]) = {}
    /\ leaf \in LabelledPaths(tickets[2])
    /\ Children(nodes, leaf) = {}
    /\ TokenSet(tickets[1].tokens) \cap TokenSet(tickets[2].tokens) # {}
    /\ NoDirectSignal(tickets[1].tokens)

FirstTop == SuggestedPath(suggestions[tickets[1].id][1])

Similarity(leaf) ==
    IF tfidf_scores # <<>> /\ leaf \in DOMAIN tfidf_scores[1][1]
    THEN tfidf_scores[1][1][leaf] ELSE 0

CalledAgain == pc = "done" /\ calls >= 2

\* C11: a second call of suggest_categories on the same batch, the ticket
\* records as the first call left them and in the same order, with the same
\* analyzer, returns the suggestion lists of the first call: the same paths
\* in the same order with the same confidences and rationales.
C11_SecondRunIdentical ==
    (CalledAgain /\ returned.order = BatchOrder(tickets)) =>
        suggestions = returned.result

\* a second call in the same order has returned, after a first call that
\* wrote final fields and returned a list of two with a TF-IDF contribution
C11_Witness ==
    /\ CalledAgain
    /\ returned.order = BatchOrder(tickets)
    /\ Len(returned.result[101]) >= 2
    /\ "tf-idf" \in Range(returned.result[101][1].rationale)
    /\ tickets[1].final_category # ""
    /\ LabelledPaths(tickets[2]) # {}


\* no two entries of a sequence of paths are the same
DistinctPaths(paths) ==
    \A i \in DOMAIN paths : \A j \in DOMAIN paths : i # j => paths[i] # paths[j]

\* C12: no two entries of a ticket's result have the same taxonomy path: the
\* candidate map holds one candidate per path, and the ranked list (with the
\* fallback, when it is inserted) and every returned suggestion list hold
\* each path once.
C12_PathsUnique ==
    /\ \A p \in DOMAIN match_map : match_map[p].path = p
    /\ DistinctPaths([i \in DOMAIN ordered_matches |-> ordered_matches[i].path])
    /\ \A id \in DOMAIN suggestions :
          DistinctPaths([i \in DOMAIN suggestions[id] |->
                            SuggestedPath(suggestions[id][i])])

\* a list of three suggestions was returned, one of them for a candidate a
\* later signal created
C12_Witness ==
    /\ Returned
    /\ Len(LastList) = 3
    /\ \E p \in DOMAIN match_map : match_map[p].matched_keywords = <<>>


\* C13: when a ticket has no candidate at all, the fallback is General IT >
\* Questions if the taxonomy has that node; else the top-level General IT
\* node, with confidence 0.5, if the taxonomy has it; else the ticket gets an
\* empty suggestion list, present in the returned mapping under its id, its
\* final fields stay as they were, and the call still returns.
C13_FallbackLadder ==
    NoCandidate =>
        /\ LastTicket.id \in DOMAIN suggestions
        /\ IF Questions \in nodes
           THEN /\ Len(LastList) = 1
                /\ SuggestedPath(LastList[1]) = <<"General IT", "Questions">>
           ELSE IF GeneralIT \in nodes
           THEN /\ Len(LastList) = 1
                /\ SuggestedPath(LastList[1]) = <<"General IT">>
                /\ LastList[1].confidence = 50
           ELSE /\ LastList = <<>>
                /\ LastTicket.final_category = ""
                /\ LastTicket.final_sub_category = ""
                /\ LastTicket.final_item_category = ""

\* a ticket with a text but no candidate, under a taxonomy without General
\* IT: the call returned an empty list for it
C13_Witness ==
    /\ NoCandidate
    /\ GeneralIT \notin nodes
    /\ Questions \notin nodes
    /\ Len(LastTicket.tokens) > 0
    /\ LastTicket.id \in DOMAIN suggestions
    /\ LastList = <<>>


\* the regex, a word pattern compiled with IGNORECASE, finds its word in the
\* ticket text
RegexSearch(regex, tokens) == regex \in TokenSet(tokens)

\* C14 as stated: a node without a keyword hit whose configured regex matches
\* the ticket text is matched: the ticket gets a candidate for the node's
\* path.
C14_RegexNodeMatched ==
    Guarded =>
        \A p \in nodes :
            ( /\ MatchedKeywords(p, CurrentTicket.tokens) = <<>>
              /\ \E r \in Regexes(Label(p)) : RegexSearch(r, CurrentTicket.tokens) )
                => p \in DOMAIN match_map


\* the entries of the configured tree, <<>> when there is no such list
TreeEntries ==
    IF builder.config = <<>> \/ builder.config[1].tree = <<>> THEN <<>>
    ELSE builder.config[1].tree[1]

\* the configuration has one of the defects of the tree
TreeDefect ==
    \/ builder.config = <<>> /\ builder.metadata = <<>>
    \/ builder.config # <<>> /\ TreeEntries = <<>>
    \/ \E i \in DOMAIN TreeEntries :
          \/ TreeEntries[i].label = NoneValue
          \/ Strip(TreeEntries[i].label) = ""
          \/ Len(RowPath(TreeEntries, i)) > MaxDepth
          \/ \E j \in DOMAIN TreeEntries :
                j # i /\ RowPath(TreeEntries, j) = RowPath(TreeEntries, i)

\* an alias entry that has no alias or no target at all
AliasDefect ==
    /\ builder.config # <<>>
    /\ \E k \in DOMAIN builder.config[1].aliases :
          \/ builder.config[1].aliases[k].alias = ""
          \/ builder.config[1].aliases[k].target = <<>>

\* the model was returned although an alias names a path outside the tree
BuiltWithUnknownAlias ==
    /\ pc = "built"
    /\ builder.config # <<>>
    /\ \E k \in DOMAIN builder.config[1].aliases :
          /\ builder.config[1].aliases[k].target # <<>>
          /\ builder.config[1].aliases[k].target \notin nodes

\* C15: a configuration with a tree defect (config and metadata both
\* missing, tree empty or not a list, a node without a non-empty label, a
\* path deeper than 3, two nodes with one path) ends in a failure and no
\* node of it is ever in a model; a failure has one of these causes (or an
\* alias entry without alias or target); an alias whose target is not in
\* the tree only adds a warning and the model with every node is returned
C15_DefectsFailAliasWarns ==
    /\ TreeDefect => pc \in {"build", "tree", "failed"} /\ nodes = {}
    /\ pc = "failed" =>
          /\ nodes = {}
          /\ builder.error # ""
          /\ TreeDefect \/ AliasDefect
    /\ BuiltWithUnknownAlias =>
          /\ nodes = {RowPath(TreeEntries, i) : i \in DOMAIN TreeEntries}
          /\ nodes # {}
          /\ "alias points to unknown path" \in Range(builder.warnings)
          /\ Len(builder.alias_rules) = Len(builder.config[1].aliases)

C15_Witness ==
    /\ pc = "failed"
    /\ builder.error = "duplicate path"
    /\ Cardinality(builder.nodes_by_path) = 3
    /\ nodes = {}


\* no ticket of the batch has an existing category label
NoLabelledTicket == \A k \in DOMAIN tickets : LabelledPaths(tickets[k]) = {}

\* the TF-IDF stage of the current ticket is over
AfterTfidf == pc \in {"negative", "rank", "assemble"}

\* the candidates of the current ticket that the TF-IDF stage created or
\* boosted
TfidfTouched == {p \in DOMAIN match_map : match_map[p].tfidf_score > 0}

PreGuard ==
    LET matched == MatchTaxonomy(nodes, CurrentTicket.tokens)
        boosted == ApplyProximityBoosts(matched, nodes, CurrentTicket.tokens)
        fuzzed == ApplyFuzzyMatches(boosted, nodes, CurrentTicket.tokens)
    IN ApplyTfidfScores(fuzzed, nodes,
                        IF tfidf_scores # <<>> THEN tfidf_scores[1][index]
                        ELSE EmptyMap)

DemotionNotes == {CitrixNote, VpnNote, TeamsNote}

\* the demoted candidates of the ticket whose list was stored last
DemotedOfLast == {p \in DOMAIN match_map : IsDemoted(match_map[p])}

\* the stored list has path, with the candidate's confidence and rationale
Listed(p) ==
    \E i \in DOMAIN LastList :
        /\ SuggestedPath(LastList[i]) = p
        /\ LastList[i].confidence = match_map[p].confidence
        /\ LastList[i].rationale = match_map[p].rationale

\* C17 as stated: every demoted candidate is in the ticket's returned
\* suggestion list.
C17_DemotedInList ==
    Returned => \A p \in DemotedOfLast : Listed(p)

\* C17, amended: a guard deletes no candidate: the guarded map has the
\* paths of the map before the guards, a demoted candidate has a lower
\* confidence and a demotion note, and it is in the ranking; it is in the
\* returned list exactly when its place in the ranking is within
\* max_suggestions_per_ticket.
C17_DemotedKeptUntilSlice ==
    /\ pc = "rank" =>
          LET before == PreGuard
          IN /\ DOMAIN match_map = DOMAIN before
             /\ \A p \in DOMAIN match_map :
                   IF IsDemoted(match_map[p])
                   THEN /\ match_map[p].confidence < before[p].confidence
                        /\ Range(match_map[p].rationale) \cap DemotionNotes # {}
                   ELSE match_map[p] = before[p]
    /\ pc = "assemble" =>
          \A p \in DOMAIN match_map :
              \E i \in DOMAIN ordered_matches : ordered_matches[i] = match_map[p]
    /\ Returned =>
          \A p \in DemotedOfLast : Listed(p) <=> PositionOf(p) <= max_suggestions

\* a demoted candidate returned in second place, below a candidate that was
\* not demoted
C17_Witness ==
    /\ Returned
    /\ \E p \in DemotedOfLast :
          /\ Listed(p)
          /\ PositionOf(p) = 2
          /\ ~IsDemoted(ordered_matches[1])


\* the candidate has an exact keyword hit
ExactHit(m) == m.matched_keywords # <<>>

\* the candidate exists only because the fuzzy stage created it
FuzzyOnly(m) == m.matched_keywords = <<>> /\ m.rationale # <<>> /\ m.rationale[1] = "fuzzy"

\* two candidates of the current ticket that the ranking is to compare: an
\* exact hit and a fuzzy-only one at one depth and one priority rank,
\* neither demoted
ExactAndFuzzyOnly(e, f) ==
    /\ ExactHit(match_map[e])
    /\ FuzzyOnly(match_map[f])
    /\ Len(e) = Len(f)
    /\ ~IsDemoted(match_map[e])
    /\ ~IsDemoted(match_map[f])
    /\ BasePriority(priority_map, e) = BasePriority(priority_map, f)

\* C18 as stated: of such two candidates the exact hit ranks first.
C18_ExactBeforeFuzzyOnly ==
    pc = "assemble" =>
        \A e \in DOMAIN match_map, f \in DOMAIN match_map :
            ExactAndFuzzyOnly(e, f) => PositionOf(e) < PositionOf(f)

\* C18, amended: the fuzzy stage alone never lifts a candidate it created to
\* an exact hit: after it a fuzzy-only candidate has at most 0.60 and an
\* exact hit at least 0.65; of such two candidates the exact hit ranks first
\* when the TF-IDF stage did not boost the fuzzy-only one, and whenever the
\* fuzzy-only one ranks first it is because its TF-IDF boost brought it to
\* the exact hit's confidence or above.
C18_ExactFirstWithoutTfidfBoost ==
    /\ pc = "tfidf" =>
          \A e \in DOMAIN match_map, f \in DOMAIN match_map :
              ExactHit(match_map[e]) /\ FuzzyOnly(match_map[f]) =>
                  /\ match_map[f].confidence <= 60
                  /\ match_map[e].confidence >= 65
    /\ pc = "assemble" =>
          \A e \in DOMAIN match_map, f \in DOMAIN match_map :
              ExactAndFuzzyOnly(e, f) =>
                  /\ match_map[f].tfidf_score = 0 => PositionOf(e) < PositionOf(f)
                  /\ PositionOf(f) < PositionOf(e) =>
                        /\ match_map[f].tfidf_score > 0
                        /\ match_map[f].confidence >= match_map[e].confidence

\* an exact hit ranked above a fuzzy-only candidate of its depth and rank
C18_Witness ==
    /\ pc = "assemble"
    /\ \E e \in DOMAIN match_map, f \in DOMAIN match_map :
          /\ ExactAndFuzzyOnly(e, f)
          /\ match_map[f].tfidf_score = 0
          /\ PositionOf(e) < PositionOf(f)


\* the call that has returned was given the batch in another order than the
\* call before it
CalledPermuted == CalledAgain /\ returned.order # BatchOrder(tickets)

C20_SubmittedAtMostOnce ==
    updater.plain =>
        /\ \A id \in TicketIds : updater.updated[id] <= 1
        /\ ~updater.late_calls
        /\ \A id \in TicketIds : updater.updated[id] = 1 => id \in updater.file

\* a second run, after a first one that updated a ticket, has skipped a row
\* of that ticket because the tracker file held it
C20_Witness ==
    /\ updater.plain
    /\ updater.runs = 2
    /\ pc = "rows"
    /\ updater.tracker_skips
    /\ updater.client_calls >= 2
    /\ \E id \in TicketIds : updater.updated[id] = 1 /\ id \in updater.file


\* the delay the client is configured with (0 when it has none)
ConfiguredDelay == IF submit.delay = <<>> THEN 0 ELSE submit.delay[1]

\* the answer of the latest call of client.update_ticket
LastOutcome == submit.outcomes[Len(submit.outcomes)]

\* C21: for one ticket update, _submit_with_retry calls the client at most
\* 3 times; every call but the latest was answered 429 and was followed by
\* one sleep of exactly the client's delay, which is then greater than 0;
\* the loop goes on only after a 429 with a positive delay before the third
\* attempt, returns on the first successful response, and raises any other
\* HTTP error, a 429 with a delay of 0 or less, and a 429 on attempt 3.
C21_RetryOnlyAfter429 ==
    submit.attempt > 0 =>
        LET n == Len(submit.outcomes)
        IN /\ n = submit.attempt
           /\ n <= 3
           /\ \A k \in 1..(n - 1) : submit.outcomes[k] = "429"
           /\ n > 1 => ConfiguredDelay > 0
           /\ submit.slept =
                 [k \in 1..(IF submit.result = "" THEN n ELSE n - 1) |-> ConfiguredDelay]
           /\ submit.result = "" <=>
                 (LastOutcome = "429" /\ ConfiguredDelay > 0 /\ n < 3)
           /\ submit.result = "return" <=> LastOutcome = "ok"
           /\ submit.result = "raise" <=>
                 \/ LastOutcome \in {"500", "404"}
                 \/ LastOutcome = "429" /\ (ConfiguredDelay <= 0 \/ n = 3)
           /\ pc = (IF submit.result = "" THEN "attempt" ELSE "waiting")

\* a ticket update that was answered 429 twice, slept the delay of 2 twice
\* and returned the response of the third call
C21_Witness ==
    /\ submit.outcomes = <<"429", "429", "ok">>
    /\ submit.slept = <<2, 2>>
    /\ submit.result = "return"
    /\ pc = "waiting"


\* the client's last answer to the row just processed was an HTTP error
RowFailed(row) == row.answer \in {"429", "500"}

\* C22: an HTTP error while updating a row does not end the loop of
\* update_ticket_categories: the step that processes the row appends the
\* row's ticket id and the status code to the collected errors, leaves the
\* responses, the tracker's ids and the tracker file as they were, and the
\* loop stays ready for the next row; a successful update appends its
\* response and no error, a row that is not sent appends nothing; and the
\* end of the run returns the responses as they are.
C22_ErrorCollectedLoopGoesOn ==
    [][/\ (pc = "rows" /\ updater'.processed = updater.processed + 1) =>
             LET row == updater'.last_row
             IN /\ pc' = "rows"
                /\ IF RowFailed(row)
                   THEN /\ updater'.errors =
                              Append(updater.errors,
                                     [ticket_id |-> row.ticket_id,
                                      status_code |-> row.answer])
                        /\ updater'.responses = updater.responses
                        /\ updater'.ticket_ids = updater.ticket_ids
                        /\ updater'.file = updater.file
                   ELSE IF row.answer = "ok"
                   THEN /\ updater'.responses = Append(updater.responses, row.ticket_id)
                        /\ updater'.errors = updater.errors
                   ELSE /\ updater'.responses = updater.responses
                        /\ updater'.errors = updater.errors
       /\ (pc = "rows" /\ pc' = "idle") =>
             /\ updater'.responses = updater.responses
             /\ updater'.errors = updater.errors]_vars

\* a run whose first row failed with status 500 and whose second row, of
\* another ticket, was updated; the failed ticket is not in the tracker
C22_Witness ==
    /\ pc = "rows"
    /\ updater.skip_tracker
    /\ updater.processed = 2
    /\ updater.errors = <<[ticket_id |-> 101, status_code |-> "500"]>>
    /\ updater.responses = <<102>>
    /\ updater.last_row.answer = "ok"
    /\ 101 \notin updater.ticket_ids \cup updater.file
    /\ 102 \in updater.file


\* the items of the pages 1..k as the server sent them, in order
RECURSIVE ItemsOfPages(_)
ItemsOfPages(k) ==
    IF k = 0 THEN <<>>
    ELSE ItemsOfPages(k - 1) \o [j \in 1..iterator.sizes[k] |-> <<k, j>>]

\* the number of items of the pages 1..k
RECURSIVE CountOfPages(_)
CountOfPages(k) == IF k = 0 THEN 0 ELSE CountOfPages(k - 1) + iterator.sizes[k]

\* the pages whose items were all yielded and counted
PagesDone ==
    IF iterator.status = "done" \/ iterator.requested = <<>>
    THEN Len(iterator.requested)
    ELSE Len(iterator.requested) - 1

\* what holds whenever the generator is at rest
PagesInOrder ==
    LET r == Len(iterator.requested)
    IN /\ iterator.requested = [k \in 1..r |-> k]
       /\ iterator.yielded \o iterator.pending = ItemsOfPages(r)
       /\ iterator.status = "suspended" => Len(iterator.yielded) > CountOfPages(r - 1)
       /\ iterator.callbacks =
             IF iterator.with_callback
             THEN [k \in 1..PagesDone |-> CountOfPages(k)] ELSE <<>>
       /\ \A k \in 1..(r - 1) : iterator.sizes[k] >= iterator.per_page
       /\ iterator.status = "done" =>
             /\ r >= 1
             /\ iterator.sizes[r] < iterator.per_page
             /\ iterator.pending = <<>>

\* what one next() does
NextEndsAfterShortPage ==
    LET r == Len(iterator.requested)
        short == r >= 1 /\ iterator.sizes[r] < iterator.per_page
        exhausted == iterator.status = "suspended" /\ iterator.pending = <<>>
    IN /\ (exhausted /\ short) =>
             /\ iterator'.status = "done"
             /\ iterator'.requested = iterator.requested
             /\ iterator'.yielded = iterator.yielded
       /\ (exhausted /\ ~short) => iterator'.requested = Append(iterator.requested, r + 1)
       /\ iterator.pending # <<>> =>
             /\ iterator'.yielded = Append(iterator.yielded, Head(iterator.pending))
             /\ iterator'.requested = iterator.requested
             /\ iterator'.callbacks = iterator.callbacks

\* C23: iter_tickets and iter_requesters request the pages 1, 2, 3, ... in
\* order, yield the items of every page in the order of the page, one at a
\* time, call the progress callback (when there is one) once after each
\* page with the number of items of all pages so far, request a further
\* page only after a page of per_page items, and end, without another
\* request, when resumed after the last item of the first page that has
\* fewer than per_page items.
C23_PagesInOrderUntilShortPage ==
    [](PagesInOrder) /\ [][NextEndsAfterShortPage]_vars

\* tickets were read over two full pages of 30 and a third page of 29,
\* with a callback after each page, and the generator has ended
C23_Witness ==
    /\ iterator.status = "done"
    /\ iterator.per_page = 30
    /\ iterator.sizes = <<30, 30, 29>>
    /\ iterator.callbacks = <<30, 60, 89>>
    /\ Len(iterator.yielded) = 89


\* the candidates of the ticket before the proximity stage
BeforeProximity == MatchTaxonomy(nodes, CurrentTicket.tokens)

\* the rule's target is in the taxonomy, the rule fires on the ticket and
\* the keyword matcher left no candidate at the target
FiresWithoutCandidate(rule) ==
    /\ HasNode(nodes, rule.path)
    /\ RuleFires(rule, CurrentTicket.tokens)
    /\ rule.path \notin DOMAIN BeforeProximity

BeforeTfidf ==
    LET matched == MatchTaxonomy(nodes, CurrentTicket.tokens)
        boosted == ApplyProximityBoosts(matched, nodes, CurrentTicket.tokens)
    IN ApplyFuzzyMatches(boosted, nodes, CurrentTicket.tokens)

\* the ticket's score of the path, 0 when it has none
ScoreOf(p) ==
    IF tfidf_scores # <<>> /\ p \in DOMAIN tfidf_scores[1][index]
    THEN tfidf_scores[1][index][p] ELSE 0

\* min(0.9, 0.5 + similarity x weight) in hundredths, with the similarity
\* in thousandths and the weight 0.35
TfidfOnlyConfidence(score) ==
    LET micro == 500000 + score * 350
    IN IF micro >= 900000 THEN 90 ELSE (micro + 5000) \div 10000

\* C25 as stated: after the TF-IDF stage a path that had no candidate has
\* one only if its similarity is strictly above the leaf threshold (0.05)
\* and the node has no children; the new candidate has the confidence
\* min(0.9, 0.5 + similarity x weight).
C25_CreatedAboveThreshold ==
    pc = "negative" =>
        LET before == BeforeTfidf
        IN \A p \in nodes \ DOMAIN before :
              /\ p \in DOMAIN match_map <=>
                    (ScoreOf(p) > 50 /\ Children(nodes, p) = {})
              /\ p \in DOMAIN match_map =>
                    match_map[p].confidence = TfidfOnlyConfidence(ScoreOf(p))

\* C25, amended: after the TF-IDF stage a path that had no candidate has one
\* exactly when its similarity is at least the leaf threshold (0.05) and
\* the node has no children; a similarity below the threshold, or a node
\* with children, creates none; the new candidate has the confidence
\* min(0.9, 0.5 + similarity x weight).
C25_CreatedAtOrAboveThreshold ==
    pc = "negative" =>
        LET before == BeforeTfidf
        IN \A p \in nodes \ DOMAIN before :
              /\ p \in DOMAIN match_map <=>
                    (ScoreOf(p) >= 50 /\ Children(nodes, p) = {})
              /\ p \in DOMAIN match_map =>
                    match_map[p].confidence = TfidfOnlyConfidence(ScoreOf(p))

\* the stage has made a candidate of a leaf whose similarity is exactly the
\* threshold, and none of a leaf just below it
C25_Witness ==
    /\ pc = "negative"
    /\ CurrentTicket.tokens = <<"room">>
    /\ ScoreOf(OutlookPath) = 50
    /\ ScoreOf(CitrixPath) = 49
    /\ DOMAIN match_map = {OutlookPath}
    /\ match_map[OutlookPath].confidence = 52


\* some phrase of the group starts at position i of the ticket's tokens
\* (positions count from 1)
OccursAt(group, i) ==
    \E phrase \in group :
        /\ Len(phrase) >= 1
        /\ i + Len(phrase) - 1 <= Len(CurrentTicket.tokens)
        /\ \A j \in 1..Len(phrase) : CurrentTicket.tokens[i + j - 1] = phrase[j]

\* every group occurs, and some occurrence of the first group starts within
\* 6 positions of an occurrence of every other group
CoOccurs(rule) ==
    LET positions == DOMAIN CurrentTicket.tokens
    IN /\ \A g \in DOMAIN rule.term_groups : \E i \in positions : OccursAt(rule.term_groups[g], i)
       /\ \E i \in positions :
             /\ OccursAt(rule.term_groups[1], i)
             /\ \A g \in 2..Len(rule.term_groups) :
                   \E j \in positions :
                      /\ OccursAt(rule.term_groups[g], j)
                      /\ i - j <= 6
                      /\ j - i <= 6

\* the rules whose target is the path, is in the taxonomy and co-occurs
FiredRulesOf(p) ==
    {k \in DOMAIN ProximityRules :
        ProximityRules[k].path = p /\ p \in nodes /\ CoOccurs(ProximityRules[k])}

\* C26: after the proximity stage every path is as the keyword matcher left
\* it unless a rule with that target, whose target is in the taxonomy,
\* co-occurs in the ticket's tokens (every term group has a phrase
\* occurrence, and an occurrence of the first group starts within 6
\* positions of an occurrence of every other group); such a rule has
\* applied its effect once, however many co-occurrences there are: the
\* boost of 0.10 (capped at 0.95) and one description on an existing
\* candidate, or one new candidate; a rule whose target is not in the
\* taxonomy changes nothing.
C26_RuleFiresOnceIffCoOccurs ==
    pc = "fuzzy" =>
        LET before == BeforeProximity
        IN /\ \A p \in DOMAIN match_map : p \in nodes
           /\ \A p \in nodes :
                 IF FiredRulesOf(p) = {}
                 THEN /\ p \in DOMAIN match_map <=> p \in DOMAIN before
                      /\ p \in DOMAIN before => match_map[p] = before[p]
                 ELSE LET rule == ProximityRules[CHOOSE k \in FiredRulesOf(p) : TRUE]
                      IN /\ Cardinality(FiredRulesOf(p)) = 1
                         /\ p \in DOMAIN match_map
                         /\ IF p \in DOMAIN before
                            THEN /\ match_map[p].confidence =
                                       (IF before[p].confidence + 10 > 95 THEN 95
                                        ELSE before[p].confidence + 10)
                                 /\ match_map[p].rationale =
                                       Append(before[p].rationale, rule.description)
                            ELSE match_map[p].rationale = <<rule.description>>

\* the vpn rule has fired once on a text with two co-occurrences, and the
\* teams/camera rule, whose terms are 4 apart, has changed nothing because
\* its target is not in the taxonomy
C26_Witness ==
    /\ pc = "fuzzy"
    /\ nodes = FullTree
    /\ CurrentTicket.tokens = <<"teams", "vpn", "cannot", "vpn", "camera">>
    /\ DOMAIN match_map = {VpnPath}
    /\ match_map[VpnPath].confidence = 90
    /\ match_map[VpnPath].rationale = <<"keywords", "vpn connectivity proximity">>


(***************************************************************************)
(* C27: keyword confidence by depth and number of hits                     *)
(***************************************************************************)
\* the number of keywords the keyword matcher recorded for a candidate
HitsOf(p) == Len(match_map[p].matched_keywords)

\* the stated table, in hundredths: base by depth, 0.05 for every hit
\* beyond the first up to 0.09, the total at most 0.95
StatedConfidence(depth, hits) ==
    LET base == CASE depth = 3 -> 90 [] depth = 2 -> 80 [] depth = 1 -> 65
        extra == IF 5 * (hits - 1) > 9 THEN 9 ELSE 5 * (hits - 1)
    IN IF base + extra > 95 THEN 95 ELSE base + extra

\* C27: when the keyword matcher has run, every candidate on a path of depth
\* 1 to 3 has the confidence the table gives for its depth and its number of
\* matched keywords (base 0.90 / 0.80 / 0.65, plus 0.05 per hit beyond the
\* first capped at +0.09, total capped at 0.95), and of two candidates the
\* one that is at least as deep with at least as many hits has at least the
\* confidence of the other.
C27_ConfidenceByDepthAndHits ==
    pc = "proximity" =>
        /\ \A p \in DOMAIN match_map :
              /\ HitsOf(p) >= 1
              /\ Len(p) \in 1..3 =>
                    match_map[p].confidence = StatedConfidence(Len(p), HitsOf(p))
        /\ \A p, q \in DOMAIN match_map :
              (Len(p) <= Len(q) /\ HitsOf(p) <= HitsOf(q)) =>
                  match_map[p].confidence <= match_map[q].confidence

\* the keyword matcher has left a depth-3 candidate at the cap 0.95 next to
\* a shallower candidate with fewer hits and a lower confidence
C27_Witness ==
    /\ pc = "proximity"
    /\ \E p, q \in DOMAIN match_map :
          /\ Len(p) = 3 /\ HitsOf(p) >= 2 /\ match_map[p].confidence = 95
          /\ Len(q) < 3 /\ HitsOf(q) = 1
          /\ match_map[q].confidence < match_map[p].confidence


(***************************************************************************)
(* C28: the fuzzy stage, path by path                                      *)
(***************************************************************************)
\* the candidates of the ticket before _apply_fuzzy_matches
BeforeFuzzy ==
    ApplyProximityBoosts(MatchTaxonomy(nodes, CurrentTicket.tokens),
                         nodes, CurrentTicket.tokens)

\* the best score, in hundredths of a point, of the ticket's tokens of
\* length 3 or more against the seed tokens of the path
BestOf(p) ==
    LET pairs == {<<s, t>> \in FuzzySeeds(p) \X Range(CurrentTicket.tokens) :
                     LongToken(t)}
    IN IF pairs = {} THEN 0
       ELSE LET best == CHOOSE x \in pairs :
                           \A y \in pairs :
                              PartialRatio(y[1], y[2]) <= PartialRatio(x[1], x[2])
            IN PartialRatio(best[1], best[2])

\* min(0.12, score/100 x 0.12), in millionths
StatedBoost(score) == IF score * 12 > 120000 THEN 120000 ELSE score * 12

\* C28: after the fuzzy stage, for every path with seed tokens: when the best
\* score of the ticket's tokens against the seeds is below 80 the path has
\* the candidate it had, or none as before; otherwise a candidate it had has
\* its confidence raised by min(0.12, score/100 x 0.12), capped at 0.95 (to
\* 2 decimals), and a path without candidate gets one only when its node has
\* no children, with confidence min(0.6, 0.45 + boost) (to 2 decimals).
C28_FuzzyStagePerPath ==
    pc = "tfidf" =>
        LET before == BeforeFuzzy
        IN \A p \in nodes :
              FuzzySeeds(p) # {} =>
                 LET score == BestOf(p)
                     boost == StatedBoost(score)
                     raised == IF p \in DOMAIN before
                               THEN before[p].confidence * 10000 + boost ELSE 0
                     created == 450000 + boost
                 IN IF score < 8000
                    THEN /\ p \in DOMAIN match_map <=> p \in DOMAIN before
                         /\ p \in DOMAIN before => match_map[p] = before[p]
                    ELSE IF p \in DOMAIN before
                    THEN /\ p \in DOMAIN match_map
                         /\ match_map[p].confidence =
                               Round2(IF raised > 950000 THEN 950000 ELSE raised)
                         /\ match_map[p].matched_keywords = before[p].matched_keywords
                    ELSE IF Children(nodes, p) = {}
                    THEN /\ p \in DOMAIN match_map
                         /\ match_map[p].confidence =
                               Round2(IF created > 600000 THEN 600000 ELSE created)
                    ELSE p \notin DOMAIN match_map

\* a root with an entry under it scored 100 and got no candidate, while the
\* leaf under it was created at 0.55 from a score of exactly 80
C28_Witness ==
    /\ pc = "tfidf"
    /\ nodes = CatoTree
    /\ BestOf(CatoRoot) = 10000
    /\ CatoRoot \notin DOMAIN match_map
    /\ \E p \in DOMAIN match_map :
          /\ BestOf(p) = 8000
          /\ p \notin DOMAIN BeforeFuzzy
          /\ match_map[p].confidence = 55


(***************************************************************************)
(* C29: the structure of the model while and after it is built             *)
(***************************************************************************)
\* how many times x is in the sequence
Occurrences(seq, x) == Cardinality({i \in DOMAIN seq : seq[i] = x})

\* TaxonomyNode.iter_nodes of the node registered at the path
RECURSIVE NodeWalk(_, _)
NodeWalk(children, path) ==
    <<path>> \o Flatten([i \in DOMAIN children[path] |->
                           NodeWalk(children, children[path][i])])

\* TaxonomyModel.iter_nodes over the nodes registered so far
ModelWalk ==
    LET roots == SelectSeq(builder.registered, LAMBDA p : Len(p) = 1)
    IN Flatten([i \in DOMAIN roots |-> NodeWalk(builder.children, roots[i])])

\* no path was registered twice
PathsDistinct ==
    \A i, j \in DOMAIN builder.registered :
        i # j => builder.registered[i] # builder.registered[j]

\* every registered path has depth 1 to 3
DepthsInRange == \A p \in builder.nodes_by_path : Len(p) \in 1..3

\* the parent path of every registered node below the roots is registered
ParentsPresent ==
    \A p \in builder.nodes_by_path : Len(p) > 1 => ParentPath(p) \in builder.nodes_by_path

\* a children list holds registered nodes one level below its node, each
\* at most once
ChildrenAreOwn ==
    \A q \in DOMAIN builder.children :
        \A i \in DOMAIN builder.children[q] :
            LET c == builder.children[q][i]
            IN /\ c \in builder.nodes_by_path
               /\ Len(c) > 1
               /\ ParentPath(c) = q
               /\ Occurrences(builder.children[q], c) = 1

\* every registered node below the roots is in its parent's children list
\* exactly once
ListedByParent ==
    \A p \in builder.nodes_by_path :
        Len(p) > 1 =>
            /\ ParentPath(p) \in DOMAIN builder.children
            /\ Occurrences(builder.children[ParentPath(p)], p) = 1

\* the walk from the root nodes visits every registered node exactly once
WalkVisitsEachOnce ==
    /\ Len(ModelWalk) = Cardinality(builder.nodes_by_path)
    /\ \A p \in builder.nodes_by_path : Occurrences(ModelWalk, p) = 1

\* nodes are being registered, or the model is complete
Inserting == pc \in {"tree", "metadata"} /\ builder.registered # <<>>
Complete == pc \in {"aliases", "config", "built"}

\* C29 as stated: after every node insertion of either builder all paths
\* are distinct, every depth is 1 to 3, every node below the roots has its
\* parent in the model and is listed by it exactly once, and the walk from
\* the roots visits each node exactly once.
C29_StructureAfterEveryInsertion ==
    (Inserting \/ Complete) =>
        /\ PathsDistinct
        /\ DepthsInRange
        /\ ParentsPresent
        /\ ListedByParent
        /\ WalkVisitsEachOnce

\* C29, amended: after every node insertion of either builder all paths are
\* distinct, every depth is 1 to 3, every node below the roots has its
\* parent in the model and no children list holds a node twice or a node of
\* another parent; after every _ensure_node call of the metadata build, and
\* in every model that is complete, each node below the roots is listed by
\* its parent exactly once and the walk from the roots visits each node
\* exactly once.
C29_StructureWhenLinked ==
    /\ (Inserting \/ Complete) =>
          /\ PathsDistinct
          /\ DepthsInRange
          /\ ParentsPresent
          /\ ChildrenAreOwn
    /\ (pc = "metadata" \/ Complete) =>
          /\ ListedByParent
          /\ WalkVisitsEachOnce

\* a model was built from metadata whose sub-categories have no parent and
\* whose items name a category and a sub-category that were not listed
C29_Witness ==
    /\ pc = "built"
    /\ builder.metadata # <<>>
    /\ builder.metadata[1].categories = <<"A">>
    /\ builder.metadata[1].subcategories # <<>>
    /\ builder.metadata[1].subcategories[1].parent = NoneValue
    /\ builder.metadata[1].item_categories # <<>>
    /\ builder.metadata[1].item_categories[1].category = "B"
    /\ \E p \in nodes : Len(p) = 3
    /\ Cardinality(nodes) >= 5
    /\ Len(ModelWalk) = Cardinality(nodes)


(***************************************************************************)
(* C30: alias rules and the classification                                 *)
(***************************************************************************)
\* the words of the ticket that are aliases of the taxonomy's alias rules
MatchedAliases(k) ==
    {builder.alias_rules[i].alias : i \in DOMAIN builder.alias_rules}
        \cap Range(tickets[k].tokens)

\* the call with alias rules has returned
ClassifiedWithAliases == pc = "done" /\ calls >= 2 /\ builder.alias_rules # <<>>

\* C30: the suggestions (paths, order, confidences, rationales) and the
\* final fields an analyzer returns for a batch over a taxonomy with alias
\* rules, whether or not an alias is a word of a ticket and whether or not
\* its target is in the tree, are those returned for the same batch over
\* the same taxonomy without alias rules.
C30_AliasRulesChangeNothing ==
    ClassifiedWithAliases =>
        /\ suggestions = returned.result
        /\ FinalsOf(tickets) = returned.finals

\* a batch was classified with an alias rule whose alias is a word of the
\* first ticket and whose target, a path of the tree, is not among the
\* ticket's suggestions
C30_Witness ==
    /\ ClassifiedWithAliases
    /\ MatchedAliases(1) # {}
    /\ \E i \in DOMAIN builder.alias_rules :
          /\ builder.alias_rules[i].alias \in Range(tickets[1].tokens)
          /\ builder.alias_rules[i].target \in nodes
          /\ \A j \in DOMAIN suggestions[101] :
                LET sg == suggestions[101][j]
                IN SelectSeq(<<sg.category, sg.sub_category, sg.item_category>>,
                             LAMBDA x : x # NoneValue) # builder.alias_rules[i].target
    /\ suggestions[101] # <<>>

=============================================================================
